---- MODULE Spec2Model ----
(***************************************************************************)
(* Trend-processing pipeline of spotify-africa-trends:                     *)
(*   collect -> clean -> enrich -> classify -> score -> summarise          *)
(* Text is modelled as TLA+ strings, character by character.  The          *)
(* character "~" stands for one non-ASCII letter of the Latin script (such *)
(* as U+00E9) and "^" for one letter of the Arabic block U+0600-U+06FF.    *)
(***************************************************************************)
EXTENDS Integers, Sequences, FiniteSets, TLC

\* ------------------------------------------------------------------------
\* Python values
\* ------------------------------------------------------------------------

\* Optional[str]: None is the empty tuple, a present value s is <<s>>.
None == <<>>

Some(s) == <<s>>

\* Python truthiness of an Optional[str]: None and "" are falsy.
Truthy(o) == o # None /\ o[1] # ""

Ch(s, i) == SubSeq(s, i, i)

WhitespaceChars == {" ", "\t", "\n"}

\* [\u0600-\u06FF]
ArabicChars == {"^"}

NonAsciiChars == {"~"} \cup ArabicChars

DigitChars == {"0", "1", "2", "3", "4", "5", "6", "7", "8", "9"}

UpperToLower ==
  [c \in {"A","B","C","D","E","F","G","H","I","J","K","L","M",
          "N","O","P","Q","R","S","T","U","V","W","X","Y","Z"} |->
     CASE c = "A" -> "a" [] c = "B" -> "b" [] c = "C" -> "c" [] c = "D" -> "d"
       [] c = "E" -> "e" [] c = "F" -> "f" [] c = "G" -> "g" [] c = "H" -> "h"
       [] c = "I" -> "i" [] c = "J" -> "j" [] c = "K" -> "k" [] c = "L" -> "l"
       [] c = "M" -> "m" [] c = "N" -> "n" [] c = "O" -> "o" [] c = "P" -> "p"
       [] c = "Q" -> "q" [] c = "R" -> "r" [] c = "S" -> "s" [] c = "T" -> "t"
       [] c = "U" -> "u" [] c = "V" -> "v" [] c = "W" -> "w" [] c = "X" -> "x"
       [] c = "Y" -> "y" [] c = "Z" -> "z"]

LowerToUpper ==
  [c \in {UpperToLower[u] : u \in DOMAIN UpperToLower} |->
     CHOOSE u \in DOMAIN UpperToLower : UpperToLower[u] = c]

RECURSIVE MapChars(_, _, _)
MapChars(s, i, table) ==
  IF i > Len(s) THEN ""
  ELSE LET c == Ch(s, i)
       IN (IF c \in DOMAIN table THEN table[c] ELSE c) \o MapChars(s, i + 1, table)

\* str.lower()
Lower(s) == MapChars(s, 1, UpperToLower)

\* str.upper()
Upper(s) == MapChars(s, 1, LowerToUpper)

\* str.strip()
Strip(s) ==
  LET keep == {i \in 1..Len(s) : Ch(s, i) \notin WhitespaceChars}
  IN IF keep = {} THEN ""
     ELSE SubSeq(s, CHOOSE i \in keep : \A j \in keep : i <= j,
                    CHOOSE i \in keep : \A j \in keep : i >= j)

\* re.sub(r'\s+', ' ', text)
RECURSIVE CollapseWhitespace(_, _, _)
CollapseWhitespace(s, i, inRun) ==
  IF i > Len(s) THEN ""
  ELSE LET c == Ch(s, i)
       IN IF c \in WhitespaceChars
          THEN (IF inRun THEN "" ELSE " ") \o CollapseWhitespace(s, i + 1, TRUE)
          ELSE c \o CollapseWhitespace(s, i + 1, FALSE)

\* text.encode('ascii', 'ignore').decode('ascii')
RECURSIVE EncodeAsciiIgnore(_, _)
EncodeAsciiIgnore(s, i) ==
  IF i > Len(s) THEN ""
  ELSE LET c == Ch(s, i)
       IN (IF c \in NonAsciiChars THEN "" ELSE c) \o EncodeAsciiIgnore(s, i + 1)

\* re.search of a literal pattern
Contains(text, pat) ==
  \E i \in 1..(Len(text) - Len(pat) + 1) : SubSeq(text, i, i + Len(pat) - 1) = pat

\* re.search(r'[0-9]{4,}\s*followers', text)
MatchesFollowers(text) ==
  \E i \in 1..Len(text) :
    /\ i + 3 <= Len(text)
    /\ \A k \in i..(i + 3) : Ch(text, k) \in DigitChars
    /\ \E j \in (i + 4)..(Len(text) - 8) :
         /\ \A k \in (i + 4)..(j - 1) : Ch(text, k) \in WhitespaceChars
         /\ SubSeq(text, j, j + 8) = "followers"

\* set(text.split()): the maximal runs of non-whitespace characters
SplitSet(s) ==
  {SubSeq(s, i, j) : <<i, j>> \in
     {p \in (1..Len(s)) \X (1..Len(s)) :
        /\ p[1] <= p[2]
        /\ \A k \in p[1]..p[2] : Ch(s, k) \notin WhitespaceChars
        /\ (p[1] = 1 \/ Ch(s, p[1] - 1) \in WhitespaceChars)
        /\ (p[2] = Len(s) \/ Ch(s, p[2] + 1) \in WhitespaceChars)}}

\* hashlib.sha256(content.encode()).hexdigest()[:16], taken to be free of
\* collisions on the texts of the model: the digest is written as its tag
\* followed by the text digested, which no other text of the model begins
\* with.
Sha256Hex16(content) == "sha256:16:" \o content

\* ------------------------------------------------------------------------
\* DataCleaner
\* ------------------------------------------------------------------------

normalize_text(text) ==
  IF text = "" THEN ""
  ELSE Strip(EncodeAsciiIgnore(CollapseWhitespace(text, 1, FALSE), 1))

normalize_item(item) ==
  [item EXCEPT
     !.title = IF item.title # "" THEN normalize_text(item.title) ELSE item.title,
     !.description = IF item.description # "" THEN normalize_text(item.description)
                     ELSE item.description,
     !.raw_text = IF item.raw_text # "" THEN normalize_text(item.raw_text)
                  ELSE item.raw_text,
     !.market = IF Truthy(item.market) THEN Some(Strip(Upper(item.market[1])))
                ELSE item.market]

compute_content_hash(item) ==
  Sha256Hex16(item.source \o ":" \o Strip(Lower(item.title)))

\* _is_duplicate with the URL compared as given, neither lower-cased nor
\* trimmed.
is_duplicate_raw_url(item, urls, hashes) ==
  LET hasUrl == Truthy(item.source_url)
      url == IF hasUrl THEN item.source_url[1] ELSE ""
      h == compute_content_hash(item)
  IN IF hasUrl /\ url \in urls
     THEN [dup |-> TRUE, seen_urls |-> urls, seen_hashes |-> hashes]
     ELSE LET urls2 == IF hasUrl THEN urls \cup {url} ELSE urls
          IN IF h \in hashes
             THEN [dup |-> TRUE, seen_urls |-> urls2, seen_hashes |-> hashes]
             ELSE [dup |-> FALSE, seen_urls |-> urls2,
                   seen_hashes |-> hashes \cup {h}]

\* _is_duplicate: the verdict and the two sets as the call leaves them.

is_duplicate(item, urls, hashes) ==
  LET hasUrl == Truthy(item.source_url)
      url == IF hasUrl THEN Strip(Lower(item.source_url[1])) ELSE ""
      h == compute_content_hash(item)
  IN IF hasUrl /\ url \in urls
     THEN [dup |-> TRUE, seen_urls |-> urls, seen_hashes |-> hashes]
     ELSE LET urls2 == IF hasUrl THEN urls \cup {url} ELSE urls
          IN IF h \in hashes
             THEN [dup |-> TRUE, seen_urls |-> urls2, seen_hashes |-> hashes]
             ELSE [dup |-> FALSE, seen_urls |-> urls2,
                   seen_hashes |-> hashes \cup {h}]

spam_patterns == {"click here", "buy now", "limited offer", "act fast"}

MatchesSpam(item) ==
  LET text_to_check == Lower(item.title \o " " \o item.description)
  IN \/ \E p \in spam_patterns : Contains(text_to_check, p)
     \/ MatchesFollowers(text_to_check)

\* The spam patterns searched in the title alone.
passes_quality_check_title_only(item) ==
  IF item.title = "" \/ Len(item.title) < 3 THEN FALSE
  ELSE ~MatchesSpam([item EXCEPT !.description = ""])

passes_quality_check(item) ==
  IF item.title = "" \/ Len(item.title) < 3 THEN FALSE
  ELSE ~MatchesSpam(item)

\* clean_batch from item i on; st carries the output list, the cleaner's two
\* sets and the two counters.
RECURSIVE CleanFrom(_, _, _)
CleanFrom(items, i, st) ==
  IF i > Len(items) THEN st
  ELSE LET item == normalize_item(items[i])
           d == is_duplicate(item, st.seen_urls, st.seen_hashes)
           st2 == [st EXCEPT !.seen_urls = d.seen_urls, !.seen_hashes = d.seen_hashes]
       IN IF d.dup
          THEN CleanFrom(items, i + 1, [st2 EXCEPT !.duplicates = @ + 1])
          ELSE IF ~passes_quality_check(item)
               THEN CleanFrom(items, i + 1, [st2 EXCEPT !.filtered = @ + 1])
               ELSE CleanFrom(items, i + 1, [st2 EXCEPT !.cleaned = Append(@, item)])

clean_batch(items, urls, hashes) ==
  CleanFrom(items, 1, [cleaned |-> <<>>, seen_urls |-> urls, seen_hashes |-> hashes,
                       duplicates |-> 0, filtered |-> 0])

\* similarity_threshold = 0.8, as the ratio ThresholdNum / ThresholdDen
ThresholdNum == 4

ThresholdDen == 5

are_similar(text1, text2) ==
  IF text1 = "" \/ text2 = "" THEN FALSE
  ELSE LET words1 == SplitSet(Lower(text1))
           words2 == SplitSet(Lower(text2))
           intersection == Cardinality(words1 \cap words2)
           union == Cardinality(words1 \cup words2)
       IN IF union = 0 THEN FALSE
          ELSE intersection * ThresholdDen >= ThresholdNum * union

RECURSIVE SetToSortedSeq(_)
SetToSortedSeq(S) ==
  IF S = {} THEN <<>>
  ELSE LET m == CHOOSE x \in S : \A y \in S : x <= y
       IN <<m>> \o SetToSortedSeq(S \ {m})

\* The grouping loop of dedupe_across_sources: groups of indices into items,
\* each headed by the first index not used by an earlier group.
RECURSIVE GroupsFrom(_, _, _, _)
GroupsFrom(items, i, used, groups) ==
  IF i > Len(items) THEN groups
  ELSE IF i \in used THEN GroupsFrom(items, i + 1, used, groups)
  ELSE LET others == {j \in (i + 1)..Len(items) :
                        j \notin used /\ are_similar(items[i].title, items[j].title)}
           group == <<i>> \o SetToSortedSeq(others)
       IN GroupsFrom(items, i + 1, used \cup {i} \cup others, Append(groups, group))

\* max(group, key=lambda x: (x.engagement, len(x.description or ""))): the
\* first member of the group, in group order, that no member exceeds.
KeyLess(a, b) ==
  \/ a.engagement < b.engagement
  \/ a.engagement = b.engagement /\ Len(a.description) < Len(b.description)

\* The first member of the group kept, whatever its engagement.
BestOf_first(items, group) == items[group[1]]

BestOf(items, group) ==
  LET k == CHOOSE k \in 1..Len(group) :
             /\ \A m \in 1..Len(group) : ~KeyLess(items[group[k]], items[group[m]])
             /\ \A m \in 1..(k - 1) : KeyLess(items[group[m]], items[group[k]])
  IN items[group[k]]

\* The survivor given the names of the other members' sources only.
MergeGroup_others_only(items, group) ==
  IF Len(group) = 1 THEN items[group[1]]
  ELSE LET best == BestOf(items, group)
           others == SelectSeq(group, LAMBDA m : items[m] # best)
       IN [best EXCEPT
             !.merged_sources = Some([m \in 1..Len(others) |-> items[others[m]].source])]

MergeGroup(items, group) ==
  IF Len(group) = 1 THEN items[group[1]]
  ELSE [BestOf(items, group) EXCEPT
          !.merged_sources = Some([m \in 1..Len(group) |-> items[group[m]].source])]

dedupe_across_sources(items) ==
  IF Len(items) <= 1 THEN items
  ELSE LET groups == GroupsFrom(items, 1, {}, <<>>)
       IN [g \in 1..Len(groups) |-> MergeGroup(items, groups[g])]

\* ------------------------------------------------------------------------
\* CommsScorer: confidence
\* ------------------------------------------------------------------------

RECURSIVE SumLens(_, _)
SumLens(entities, types) ==
  IF types = {} THEN 0
  ELSE LET t == CHOOSE t \in types : TRUE
       IN Len(entities[t]) + SumLens(entities, types \ {t})

\* The local confidence_score of _determine_confidence.
confidence_score(item) ==
  LET sources == IF item.merged_sources # None THEN item.merged_sources[1]
                 ELSE <<item.source>>
      source_count == Len(sources)
      entity_count == SumLens(item.entities, DOMAIN item.entities)
      has_velocity == item.velocity > 0
  IN (IF source_count >= 3 THEN 3 ELSE IF source_count >= 2 THEN 2 ELSE 1)
     + (IF entity_count >= 3 THEN 2 ELSE IF entity_count >= 1 THEN 1 ELSE 0)
     + (IF has_velocity THEN 2 ELSE 0)
     + (IF Truthy(item.market) THEN 1 ELSE 0)

determine_confidence(item) ==
  LET s == confidence_score(item)
  IN IF s >= 6 THEN "high" ELSE IF s >= 3 THEN "medium" ELSE "low"

\* ------------------------------------------------------------------------
\* DataEnricher and TopicClassifier
\* ------------------------------------------------------------------------

\* The characters the regular expression class \w matches.
WordChars ==
  DOMAIN UpperToLower \cup DOMAIN LowerToUpper \cup DigitChars \cup {"_"}
  \cup NonAsciiChars

IsWordAt(text, i) == i >= 1 /\ i <= Len(text) /\ Ch(text, i) \in WordChars

\* \b between the characters i - 1 and i of text
WordBoundary(text, i) == IsWordAt(text, i - 1) # IsWordAt(text, i)

\* r'\b' + re.escape(word) + r'\b' with re.IGNORECASE matches at position i
WordMatchAt(text, word, i) ==
  /\ i + Len(word) - 1 <= Len(text)
  /\ Lower(SubSeq(text, i, i + Len(word) - 1)) = Lower(word)
  /\ WordBoundary(text, i)
  /\ WordBoundary(text, i + Len(word))

\* pattern.search(text)
WordSearch(text, word) == \E i \in 1..Len(text) : WordMatchAt(text, word, i)

\* f"{item.title} {item.description} {item.raw_text}"
FullText(item) == item.title \o " " \o item.description \o " " \o item.raw_text

\* _extract_seed_entities: per entity type, the seed names found in the text,
\* in the order of the seed list; a type without a match has no key.
extract_seed_entities(text, seeds) ==
  LET found(t) == SelectSeq(seeds[t], LAMBDA e : WordSearch(text, e))
  IN [t \in {u \in DOMAIN seeds : found(u) # <<>>} |-> found(t)]

\* list(set(names)): the names without repetition (in some order).
RECURSIVE Distinct(_)
Distinct(names) ==
  IF names = <<>> THEN <<>>
  ELSE LET rest == Distinct(Tail(names))
       IN IF \E i \in 1..Len(rest) : rest[i] = Head(names) THEN rest
          ELSE <<Head(names)>> \o rest

\* The merge of the spaCy entities into item.entities in enrich_item.
merge_entities(seed, nlp) ==
  [t \in DOMAIN seed \cup DOMAIN nlp |->
     IF t \in DOMAIN seed /\ t \in DOMAIN nlp THEN Distinct(seed[t] \o nlp[t])
     ELSE IF t \in DOMAIN nlp THEN nlp[t] ELSE seed[t]]

\* DataEnricher.market_keywords, in the order of the dict.
MarketKeywords ==
  << <<"ZA", <<"south africa", "johannesburg", "cape town", "pretoria", "durban",
              "soweto", "za", "mzansi">> >>,
     <<"NG", <<"nigeria", "lagos", "abuja", "naija", "nigerians">> >>,
     <<"KE", <<"kenya", "nairobi", "mombasa", "kenyan">> >>,
     <<"GH", <<"ghana", "accra", "kumasi", "ghanaian">> >>,
     <<"TZ", <<"tanzania", "dar es salaam", "dodoma", "tanzanian", "bongo">> >>,
     <<"UG", <<"uganda", "kampala", "ugandan">> >>,
     <<"AO", <<"angola", "luanda", "angolan", "kuduro">> >>,
     <<"CI", <<"ivory coast", "c~te d'ivoire", "cote d'ivoire", "abidjan",
              "ivorian">> >>,
     <<"SN", <<"senegal", "dakar", "senegalese">> >>,
     <<"EG", <<"egypt", "cairo", "alexandria", "egyptian">> >>,
     <<"MA", <<"morocco", "rabat", "casablanca", "marrakech", "moroccan">> >> >>

\* The number of elements of a sequence that satisfy Test
CountIn(seq, Test(_)) == Len(SelectSeq(seq, Test))

\* The first index of scores holding its greatest value: max(d, key=d.get)
\* over a dict in insertion order.
FirstMax(scores) ==
  CHOOSE i \in 1..Len(scores) :
    /\ \A j \in 1..Len(scores) : scores[j] <= scores[i]
    /\ \A j \in 1..(i - 1) : scores[j] < scores[i]

\* _infer_market: the market with the most keywords in the text, None when no
\* keyword occurs.
infer_market(text) ==
  LET lower == Lower(text)
      scores == [m \in 1..Len(MarketKeywords) |->
                   CountIn(MarketKeywords[m][2], LAMBDA kw : Contains(lower, kw))]
  IN IF \A m \in 1..Len(scores) : scores[m] = 0 THEN None
     ELSE Some(MarketKeywords[FirstMax(scores)][1])

\* The indicator words of _detect_language_simple.
french_words == <<"le", "la", "les", "de", "du", "des", "est", "sont", "avec", "pour">>

portuguese_words == <<"n~o", "que", "para", "com", "uma", "s~o", "est~">>

swahili_words == <<"na", "kwa", "wa", "ya", "ni", "kutoka", "kwamba">>

\* f" {w} " in f" {text_lower} "
SpacedWord(text_lower, w) == Contains(" " \o text_lower \o " ", " " \o w \o " ")

french_count(text_lower) ==
  CountIn(french_words, LAMBDA w : SpacedWord(text_lower, w))

\* sum(1 for w in portuguese_words if w in text_lower)
portuguese_count(text_lower) ==
  CountIn(portuguese_words, LAMBDA w : Contains(text_lower, w))

swahili_count(text_lower) ==
  CountIn(swahili_words, LAMBDA w : SpacedWord(text_lower, w))

\* bool(arabic_pattern.search(text))
has_arabic(text) == \E i \in 1..Len(text) : Ch(text, i) \in ArabicChars

\* _detect_language_simple without the default.
detect_language_simple_no_default(text) ==
  IF has_arabic(text) THEN Some("ar")
  ELSE IF french_count(Lower(text)) >= 3 THEN Some("fr")
  ELSE IF portuguese_count(Lower(text)) >= 2 THEN Some("pt")
  ELSE IF swahili_count(Lower(text)) >= 2 THEN Some("sw")
  ELSE None

\* _detect_language_simple
detect_language_simple(text) ==
  IF has_arabic(text) THEN Some("ar")
  ELSE IF french_count(Lower(text)) >= 3 THEN Some("fr")
  ELSE IF portuguese_count(Lower(text)) >= 2 THEN Some("pt")
  ELSE IF swahili_count(Lower(text)) >= 2 THEN Some("sw")
  ELSE Some("en")

\* The shortest text _detect_language looks at.
MinDetectLen == 20

\* _detect_language, given what `from langdetect import detect` and the
\* call of detect do: "absent" is the ImportError, "raises" any other
\* exception, anything else the code detect returns.
detect_language(text, langdetect) ==
  IF text = "" \/ Len(text) < MinDetectLen THEN None
  ELSE IF langdetect = "absent" THEN detect_language_simple(text)
  ELSE IF langdetect = "raises" THEN None
  ELSE Some(langdetect)

\* enrich_item, given what spaCy extracted (nothing when it is not installed)
\* and what langdetect does.
enrich_item(item, seeds, nlp, langdetect) ==
  LET text == FullText(item)
  IN [item EXCEPT
        !.entities = merge_entities(extract_seed_entities(text, seeds), nlp),
        !.language = IF Truthy(item.language) THEN item.language
                     ELSE detect_language(text, langdetect),
        !.market = IF Truthy(item.market) THEN item.market ELSE infer_market(text)]

\* The first keyword, in the order of the alternation, that matches at i; 0
\* when none does.
FirstKeywordAt(text, keywords, i) ==
  LET hits == {k \in 1..Len(keywords) :
                 keywords[k] # "" /\ WordMatchAt(text, keywords[k], i)}
  IN IF hits = {} THEN 0 ELSE CHOOSE k \in hits : \A h \in hits : k <= h

\* len(pattern.findall(text)): the matches of the alternation, left to right
\* without overlap.
RECURSIVE CountMatches(_, _, _)
CountMatches(text, keywords, i) ==
  IF i > Len(text) THEN 0
  ELSE LET k == FirstKeywordAt(text, keywords, i)
       IN IF k = 0 THEN CountMatches(text, keywords, i + 1)
          ELSE 1 + CountMatches(text, keywords, i + Len(keywords[k]))

\* topic_data.get("name", "").lower().replace(" & ", "_")
RECURSIVE ReplaceAmp(_, _)
ReplaceAmp(s, i) ==
  IF i > Len(s) THEN ""
  ELSE IF i + 2 <= Len(s) /\ SubSeq(s, i, i + 2) = " & "
       THEN "_" \o ReplaceAmp(s, i + 3)
       ELSE Ch(s, i) \o ReplaceAmp(s, i + 1)

source_topic_affinity(source) ==
  CASE source = "youtube" -> "music_audio"
    [] source = "wikipedia" -> "music_audio"
    [] source = "news_rss" -> "current_affairs"
    [] source = "reddit" -> "culture"
    [] OTHER -> ""

Min(a, b) == IF a <= b THEN a ELSE b

\* _score_topic with the boost for artist entities left out.
score_topic_keywords_only(text, topic_data, item) ==
  Min(100, (IF topic_data.keywords # <<>>
            THEN CountMatches(text, topic_data.keywords, 1) * 10 ELSE 0)
           + (IF source_topic_affinity(item.source) # ""
                 /\ source_topic_affinity(item.source)
                      = ReplaceAmp(Lower(topic_data.name), 1)
              THEN 5 ELSE 0))

\* _score_topic
score_topic(text, topic_data, item) ==
  Min(100, (IF topic_data.keywords # <<>>
            THEN CountMatches(text, topic_data.keywords, 1) * 10 ELSE 0)
           + (IF "artists" \in DOMAIN item.entities
                 /\ topic_data.name = "Music & Audio"
              THEN Len(item.entities["artists"]) * 15 ELSE 0)
           + (IF source_topic_affinity(item.source) # ""
                 /\ source_topic_affinity(item.source)
                      = ReplaceAmp(Lower(topic_data.name), 1)
              THEN 5 ELSE 0))

\* _default_classification: the topic that goes with the source.
default_classification(item) ==
  CASE item.source \in {"youtube", "wikipedia"} -> "music_audio"
    [] item.source = "news_rss" -> "current_affairs"
    [] OTHER -> "culture"

\* classify_item: the topic assigned; topics is config["topics"] as a
\* sequence of [key, name, keywords] in the order of the dict.
classify_item(item, topics) ==
  LET text == Lower(FullText(item))
      scores == [t \in 1..Len(topics) |-> score_topic(text, topics[t], item)]
  IN [item EXCEPT
        !.topic = IF \A t \in 1..Len(scores) : scores[t] = 0
                  THEN Some(default_classification(item))
                  ELSE Some(topics[FirstMax(scores)].key)]

\* ------------------------------------------------------------------------
\* CommsScorer.  Component scores are whole numbers of points; a weight of
\* the weighted sum is held in hundredths (25 is 0.25), a market weight in
\* tenths (15 is 1.5), and total_score in hundredths of a point (6450 is
\* 64.5).
\* ------------------------------------------------------------------------

\* _score_velocity with the two top buckets exchanged.
score_velocity_swapped(item) ==
  IF item.velocity >= 200 THEN 80
  ELSE IF item.velocity >= 100 THEN 100
  ELSE IF item.velocity >= 50 THEN 60
  ELSE IF item.velocity >= 20 THEN 40
  ELSE IF item.velocity > 0 THEN 20
  ELSE 10

\* _score_velocity
score_velocity(item) ==
  IF item.velocity >= 200 THEN 100
  ELSE IF item.velocity >= 100 THEN 80
  ELSE IF item.velocity >= 50 THEN 60
  ELSE IF item.velocity >= 20 THEN 40
  ELSE IF item.velocity > 0 THEN 20
  ELSE 10

\* _score_reach
score_reach(item) ==
  LET combined == item.volume + item.engagement * 2
  IN IF combined >= 1000000 THEN 100
     ELSE IF combined >= 100000 THEN 80
     ELSE IF combined >= 10000 THEN 60
     ELSE IF combined >= 1000 THEN 40
     ELSE IF combined >= 100 THEN 20
     ELSE 10

\* self.market_weights.get(market, 1.0), in tenths
market_weight(market_weights, market) ==
  IF market \in DOMAIN market_weights THEN market_weights[market] ELSE 10

\* _score_market_impact without the cap at 100.
score_market_impact_uncapped(item, market_weights) ==
  IF ~Truthy(item.market) THEN 30
  ELSE market_weight(market_weights, item.market[1]) * 5

\* _score_market_impact: min(weight * 50, 100)
score_market_impact(item, market_weights) ==
  IF ~Truthy(item.market) THEN 30
  ELSE Min(market_weight(market_weights, item.market[1]) * 5, 100)

Competitors == <<"apple music", "boomplay", "audiomack", "youtube music", "deezer">>

MusicKeywords == <<"song", "music", "album", "track", "playlist", "stream", "listen">>

\* _score_spotify_adjacency with the test of the topic music_audio moved
\* before the test of the artists.
score_spotify_adjacency_topic_first(item) ==
  LET text == Lower(item.title \o " " \o item.description)
  IN IF Contains(text, "spotify") THEN 100
     ELSE IF \E c \in 1..Len(Competitors) : Contains(text, Competitors[c]) THEN 90
     ELSE IF item.topic = Some("music_audio") THEN 70
     ELSE IF "artists" \in DOMAIN item.entities
          THEN Min(70 + Len(item.entities["artists"]) * 10, 95)
     ELSE IF \E k \in 1..Len(MusicKeywords) : Contains(text, MusicKeywords[k]) THEN 60
     ELSE IF item.topic = Some("culture") THEN 40
     ELSE 20

\* _score_spotify_adjacency
score_spotify_adjacency(item) ==
  LET text == Lower(item.title \o " " \o item.description)
  IN IF Contains(text, "spotify") THEN 100
     ELSE IF \E c \in 1..Len(Competitors) : Contains(text, Competitors[c]) THEN 90
     ELSE IF "artists" \in DOMAIN item.entities
          THEN Min(70 + Len(item.entities["artists"]) * 10, 95)
     ELSE IF item.topic = Some("music_audio") THEN 70
     ELSE IF \E k \in 1..Len(MusicKeywords) : Contains(text, MusicKeywords[k]) THEN 60
     ELSE IF item.topic = Some("culture") THEN 40
     ELSE 20

\* The keywords of one tier that occur in the text.
KeywordsFound(text, keywords) ==
  SelectSeq(keywords, LAMBDA kw : Contains(text, Lower(kw)))

\* _score_risk with the level raised by the topic as well.
score_risk_by_topic(item, risk_keywords) ==
  LET text == Lower(FullText(item))
      high == KeywordsFound(text, risk_keywords.high)
      medium == KeywordsFound(text, risk_keywords.medium)
      low == KeywordsFound(text, risk_keywords.low)
      amplified == item.topic \in {Some("current_affairs"), Some("brand_comms")}
      level == IF high # <<>> THEN "high"
               ELSE IF medium # <<>> \/ amplified THEN "medium" ELSE "low"
      score == IF level = "high" THEN (IF amplified THEN 150 ELSE 100)
               ELSE IF level = "medium" THEN (IF amplified THEN 90 ELSE 60)
               ELSE IF low # <<>> THEN 30 ELSE 10
  IN [score |-> Min(score, 100), risk_level |-> level,
      found_keywords |-> high \o medium \o low]

\* _score_risk: topic_risk is 1.5 for current_affairs and brand_comms.
score_risk(item, risk_keywords) ==
  LET text == Lower(FullText(item))
      high == KeywordsFound(text, risk_keywords.high)
      medium == KeywordsFound(text, risk_keywords.medium)
      low == KeywordsFound(text, risk_keywords.low)
      amplified == item.topic \in {Some("current_affairs"), Some("brand_comms")}
      level == IF high # <<>> THEN "high"
               ELSE IF medium # <<>> THEN "medium" ELSE "low"
      score == IF level = "high" THEN (IF amplified THEN 150 ELSE 100)
               ELSE IF level = "medium" THEN (IF amplified THEN 90 ELSE 60)
               ELSE IF low # <<>> THEN 30 ELSE 10
  IN [score |-> Min(score, 100), risk_level |-> level,
      found_keywords |-> high \o medium \o low]

\* _determine_action with the test of the risk level moved after the tests
\* of the total.
determine_action_total_first(risk_level, total_score, adjacency) ==
  IF total_score >= 8000
  THEN (IF adjacency >= 70 THEN "engage" ELSE "monitor")
  ELSE IF risk_level = "high"
  THEN (IF adjacency >= 80 THEN "escalate" ELSE "avoid")
  ELSE IF total_score >= 6000
  THEN (IF adjacency >= 80 THEN "partner"
        ELSE IF risk_level = "medium" THEN "monitor" ELSE "engage")
  ELSE "monitor"

\* _determine_action
determine_action(risk_level, total_score, adjacency) ==
  IF risk_level = "high"
  THEN (IF adjacency >= 80 THEN "escalate" ELSE "avoid")
  ELSE IF total_score >= 8000
  THEN (IF adjacency >= 70 THEN "engage" ELSE "monitor")
  ELSE IF total_score >= 6000
  THEN (IF adjacency >= 80 THEN "partner"
        ELSE IF risk_level = "medium" THEN "monitor" ELSE "engage")
  ELSE IF risk_level = "medium" THEN "monitor"
  ELSE "monitor"

\* score_item: the ScoreBreakdown
score_item(item, scoring) ==
  LET v == score_velocity(item)
      r == score_reach(item)
      m == score_market_impact(item, scoring.market_weights)
      a == score_spotify_adjacency(item)
      k == score_risk(item, scoring.risk_keywords)
      total == v * scoring.weights.velocity + r * scoring.weights.reach
               + m * scoring.weights.market_impact
               + a * scoring.weights.spotify_adjacency
               + k.score * scoring.weights.risk_factor
  IN [velocity_score |-> v, reach_score |-> r, market_impact_score |-> m,
      spotify_adjacency_score |-> a, risk_score |-> k.score,
      total_score |-> total, risk_level |-> k.risk_level,
      risk_keywords_found |-> k.found_keywords,
      suggested_action |-> determine_action(k.risk_level, total, a),
      confidence |-> determine_confidence(item)]

\* list.sort(key=total_score, reverse=True) one element at a time: the sort
\* is stable, so e goes behind every element whose total_score is not lower.
SortedInsert(sorted, e) ==
  LET ahead == {k \in 1..Len(sorted) :
                  sorted[k].breakdown.total_score >= e.breakdown.total_score}
      n == Cardinality(ahead)
  IN SubSeq(sorted, 1, n) \o <<e>> \o SubSeq(sorted, n + 1, Len(sorted))

RECURSIVE SortByTotal(_, _)
SortByTotal(pairs, sorted) ==
  IF pairs = <<>> THEN sorted
  ELSE SortByTotal(Tail(pairs), SortedInsert(sorted, Head(pairs)))

\* score_batch without the sort.
score_batch_unsorted(items, scoring) ==
  [i \in 1..Len(items) |->
     [item |-> items[i], breakdown |-> score_item(items[i], scoring)]]

\* score_batch on the items themselves: the (item, breakdown) pairs sorted by
\* total_score, highest first.
score_batch_items(items, scoring) ==
  SortByTotal([i \in 1..Len(items) |->
                 [item |-> items[i], breakdown |-> score_item(items[i], scoring)]],
              <<>>)

\* ------------------------------------------------------------------------
\* TrendSummariser
\* ------------------------------------------------------------------------

\* seq[:n]
FirstN(seq, n) == SubSeq(seq, 1, Min(n, Len(seq)))

RECURSIVE JoinComma(_)
\* ", ".join(words)
JoinComma(words) ==
  IF words = <<>> THEN ""
  ELSE IF Len(words) = 1 THEN words[1]
  ELSE words[1] \o ", " \o JoinComma(Tail(words))

\* breakdown.risk_reason, as _score_risk writes it
risk_reason(breakdown) ==
  IF breakdown.risk_level = "high"
  THEN "High risk detected: " \o JoinComma(FirstN(breakdown.risk_keywords_found, 3))
  ELSE IF breakdown.risk_level = "medium"
  THEN "Medium risk: " \o JoinComma(FirstN(breakdown.risk_keywords_found, 3))
  ELSE IF breakdown.risk_keywords_found # <<>>
  THEN "Low risk signals: " \o JoinComma(FirstN(breakdown.risk_keywords_found, 3))
  ELSE "No significant risk signals"

\* item.entities.get("artists", [])
ArtistsOf(item) ==
  IF "artists" \in DOMAIN item.entities THEN item.entities["artists"] ELSE <<>>

\* _generate_why_it_matters: the bullet on the relevance to Spotify
relevance_bullet(item, breakdown) ==
  IF breakdown.spotify_adjacency_score >= 80
  THEN IF Contains(Lower(item.title), "spotify")
       THEN "Direct Spotify mention - requires monitoring for brand impact and response opportunity."
       ELSE "Highly relevant to music/audio culture - strong opportunity for brand alignment."
  ELSE IF breakdown.spotify_adjacency_score >= 50
  THEN IF ArtistsOf(item) # <<>>
       THEN "Involves key artists (" \o JoinComma(FirstN(ArtistsOf(item), 2))
            \o ") - potential partnership or content opportunity."
       ELSE "Connected to youth culture and entertainment - contextual relevance for campaigns."
  ELSE "Tangential to core music audience - monitor for cultural context only."

\* _generate_why_it_matters: the bullet on impact and risk; total_score is
\* held in hundredths.
impact_bullet(item, breakdown) ==
  IF breakdown.risk_level = "high"
  THEN "HIGH SENSITIVITY: " \o risk_reason(breakdown)
       \o ". Avoid association, prepare holding statement."
  ELSE IF breakdown.risk_level = "medium"
  THEN "Moderate sensitivity detected. Monitor closely before any engagement."
  ELSE IF breakdown.total_score >= 7000
  THEN "High visibility trend in "
       \o (IF Truthy(item.market) THEN item.market[1] ELSE "multiple markets")
       \o ". Good timing for relevant content or creator collaboration."
  ELSE IF breakdown.velocity_score >= 60
  THEN "Rapidly growing - early engagement could establish brand presence."
  ELSE "Standard trend velocity. No urgent action required."

\* _generate_why_it_matters: bullets[:2]
generate_why_it_matters(item, breakdown) ==
  FirstN(<<relevance_bullet(item, breakdown), impact_bullet(item, breakdown)>>, 2)

\* topic_risks.get(topic), the table of _generate_risk_scenario
topic_risks(topic) ==
  CASE topic = Some("current_affairs") ->
         Some("If Spotify appears to take sides or misreads public sentiment, risk of boycott calls or backlash in market.")
    [] topic = Some("brand_comms") ->
         Some("Misstep could amplify negative conversation and associate Spotify with controversy.")
    [] topic = Some("music_audio") ->
         Some("Artist-related controversy could impact playlist partnerships and creator relations.")
    [] topic = Some("culture") ->
         Some("Tone-deaf engagement could damage youth/cultural credibility.")
    [] topic = Some("fashion_beauty") ->
         Some("Brand association with wrong influencer could affect perception.")
    [] topic = Some("spotify_specific") ->
         Some("Direct brand issue requires immediate comms response; delay increases reputational risk.")
    [] OTHER -> None

\* The sentence of _generate_risk_scenario for risk_level high.
high_risk_sentence(breakdown) ==
  "Serious reputational risk due to "
  \o JoinComma(FirstN(breakdown.risk_keywords_found, 2))
  \o ". Any association could trigger backlash and media scrutiny."

\* The second argument of topic_risks.get(item.topic, ...), by risk level.
fallback_sentence(risk_level) ==
  IF risk_level = "medium"
  THEN "Engagement without proper context could appear opportunistic or insensitive."
  ELSE "Minimal downside if approached authentically. Main risk is appearing irrelevant or late."

\* _generate_risk_scenario looking the topic up before the risk level.
generate_risk_scenario_topic_first(item, breakdown) ==
  IF topic_risks(item.topic) # None THEN topic_risks(item.topic)[1]
  ELSE IF breakdown.risk_level = "high" THEN high_risk_sentence(breakdown)
  ELSE fallback_sentence(breakdown.risk_level)

\* _generate_risk_scenario
generate_risk_scenario(item, breakdown) ==
  IF breakdown.risk_level = "high" THEN high_risk_sentence(breakdown)
  ELSE IF topic_risks(item.topic) # None THEN topic_risks(item.topic)[1]
  ELSE fallback_sentence(breakdown.risk_level)

\* summarise_item: the fields of the TrendSummary examined here
summarise_item(item, breakdown) ==
  [trend_id |-> item.id,
   title |-> item.title,
   why_it_matters |-> generate_why_it_matters(item, breakdown),
   if_goes_wrong |-> generate_risk_scenario(item, breakdown),
   topic |-> IF Truthy(item.topic) THEN item.topic[1] ELSE "unknown",
   risk_level |-> breakdown.risk_level,
   sources |-> IF item.merged_sources # None THEN item.merged_sources[1]
               ELSE <<item.source>>]

\* summarise_batch on (item, breakdown) pairs: one summary per pair, in order
summarise_batch_items(scored_pairs) ==
  [i \in 1..Len(scored_pairs) |->
     summarise_item(scored_pairs[i].item, scored_pairs[i].breakdown)]

\* ------------------------------------------------------------------------
\* RiskFactorValidator
\* ------------------------------------------------------------------------
\* A trend is a dict with the keys id, risk_level, risk_score and
\* last_updated, each present (Some) or not (None).  risk_score is a number,
\* held in tenths of a point; last_updated is held as the age of the record
\* in hours at the time of the call.

\* RISK_SCORE_RANGES.get(risk_level), in tenths
RISK_SCORE_RANGES(risk_level) ==
  CASE risk_level = "low" -> Some(<<0, 330>>)
    [] risk_level = "medium" -> Some(<<340, 660>>)
    [] risk_level = "high" -> Some(<<670, 1000>>)
    [] OTHER -> None

valid_risk_levels == {"low", "medium", "high"}

ValidationResult(is_valid, severity, field) ==
  [is_valid |-> is_valid, severity |-> severity, field |-> field]

validate_risk_level(risk_level) ==
  IF risk_level \notin valid_risk_levels
  THEN ValidationResult(FALSE, "error", Some("risk_level"))
  ELSE ValidationResult(TRUE, "info", Some("risk_level"))

validate_risk_score(risk_score) ==
  IF risk_score < 0 \/ risk_score > 1000
  THEN ValidationResult(FALSE, "error", Some("risk_score"))
  ELSE ValidationResult(TRUE, "info", Some("risk_score"))

\* validate_risk_consistency reporting a mismatch as an error.
validate_risk_consistency_error(risk_level, risk_score) ==
  LET expected_range == RISK_SCORE_RANGES(risk_level)
  IN IF ~Truthy(expected_range)
     THEN ValidationResult(FALSE, "error", Some("risk_level"))
     ELSE IF expected_range[1][1] <= risk_score /\ risk_score <= expected_range[1][2]
     THEN ValidationResult(TRUE, "info", None)
     ELSE ValidationResult(FALSE, "error", Some("risk_consistency"))

validate_risk_consistency(risk_level, risk_score) ==
  LET expected_range == RISK_SCORE_RANGES(risk_level)
  IN IF ~Truthy(expected_range)
     THEN ValidationResult(FALSE, "error", Some("risk_level"))
     ELSE IF expected_range[1][1] <= risk_score /\ risk_score <= expected_range[1][2]
     THEN ValidationResult(TRUE, "info", None)
     ELSE ValidationResult(FALSE, "warning", Some("risk_consistency"))

threshold_hours == 24

validate_freshness(age_hours) ==
  IF age_hours <= threshold_hours
  THEN ValidationResult(TRUE, "info", Some("freshness"))
  ELSE ValidationResult(FALSE, "warning", Some("freshness"))

validate_trend(trend) ==
  (IF trend.risk_level # None THEN <<validate_risk_level(trend.risk_level[1])>>
   ELSE <<>>)
  \o (IF trend.risk_score # None THEN <<validate_risk_score(trend.risk_score[1])>>
      ELSE <<>>)
  \o (IF trend.risk_level # None /\ trend.risk_score # None
      THEN <<validate_risk_consistency(trend.risk_level[1], trend.risk_score[1])>>
      ELSE <<>>)
  \o (IF trend.last_updated # None THEN <<validate_freshness(trend.last_updated[1])>>
      ELSE <<>>)

\* all_results after the trends i.. of the batch: each result with the
\* position and the id of its trend.
RECURSIVE BatchResults(_, _)
BatchResults(trends, i) ==
  IF i > Len(trends) THEN <<>>
  ELSE LET results == validate_trend(trends[i])
           trend_id == IF trends[i].id # None THEN trends[i].id[1] ELSE "unknown"
       IN [k \in 1..Len(results) |->
             [trend_index |-> i - 1, trend_id |-> trend_id, result |-> results[k]]]
          \o BatchResults(trends, i + 1)

validate_batch(trends) ==
  LET all_results == BatchResults(trends, 1)
      errors == CountIn(all_results,
                        LAMBDA r : ~r.result.is_valid /\ r.result.severity = "error")
      warnings == CountIn(all_results,
                          LAMBDA r : ~r.result.is_valid /\ r.result.severity = "warning")
  IN [total_trends |-> Len(trends), total_checks |-> Len(all_results),
      errors |-> errors, warnings |-> warnings, is_valid |-> errors = 0,
      results |-> all_results]

\* ------------------------------------------------------------------------
\* SQLiteStorage and PostgresStorage: save_trends, save_pipeline_run
\* ------------------------------------------------------------------------
\* Of the columns of the table trends, title, total_score and last_updated
\* stand for those the upsert overwrites on a conflict and source for those
\* it leaves as first inserted.

TrendRecord(id, title, source, total_score, last_updated) ==
  [id |-> id, title |-> title, source |-> source, total_score |-> total_score,
   last_updated |-> last_updated]

\* INSERT INTO trends without the ON CONFLICT clause, on a table without the
\* primary key.
insert_trend(rows, trend) == Append(rows, trend)

\* INSERT INTO trends ... ON CONFLICT(id) DO UPDATE SET ...
upsert_trend(rows, trend) ==
  IF \E i \in 1..Len(rows) : rows[i].id = trend.id
  THEN [i \in 1..Len(rows) |->
          IF rows[i].id = trend.id
          THEN [rows[i] EXCEPT !.title = trend.title,
                               !.total_score = trend.total_score,
                               !.last_updated = trend.last_updated]
          ELSE rows[i]]
  ELSE Append(rows, trend)

\* INSERT INTO trend_history ... ON CONFLICT(trend_id, snapshot_date) DO
\* UPDATE SET ...
upsert_history(rows, trend, today) ==
  {h \in rows : ~(h.trend_id = trend.id /\ h.snapshot_date = today)}
  \cup {[trend_id |-> trend.id, snapshot_date |-> today,
         total_score |-> trend.total_score]}

\* The body of the loop for one record: both statements, or the except
\* branch.  SQLite is handed trend.last_updated.isoformat(), which raises
\* for None before any statement runs; PostgreSQL is handed the value itself.
save_one(backend, db, trend, today) ==
  IF backend = "sqlite" /\ trend.last_updated = None THEN db
  ELSE [trends |-> upsert_trend(db.trends, trend),
        history |-> upsert_history(db.history, trend, today),
        saved |-> db.saved + 1]

RECURSIVE save_loop(_, _, _, _, _)
save_loop(backend, db, trends, i, today) ==
  IF i > Len(trends) THEN db
  ELSE save_loop(backend, save_one(backend, db, trends[i], today), trends,
                 i + 1, today)

\* save_trends(trends): the two tables as it leaves them and the count it
\* returns.
save_trends(backend, rows, history, trends, today) ==
  save_loop(backend, [trends |-> rows, history |-> history, saved |-> 0],
            trends, 1, today)

\* save_pipeline_run(metrics): one more row, under a fresh run id.
save_pipeline_run(rows, m) == Append(rows, [success |-> m.success, stages |-> m.stages])

\* ------------------------------------------------------------------------
\* TrendItem values the connectors can produce
\* ------------------------------------------------------------------------

NoEntities == [t \in {} |-> <<>>]

\* TrendItem(...): velocity is held in hundredths (120 is 1.2).
TrendItem(id, source, source_url, title, description, market, engagement, velocity) ==
  [id |-> id, source |-> source, source_url |-> source_url, title |-> title,
   description |-> description, market |-> market, engagement |-> engagement,
   velocity |-> velocity, entities |-> NoEntities, merged_sources |-> None,
   raw_text |-> "", volume |-> 0, topic |-> None, language |-> None]

Catalog ==
  { TrendItem("c1", "news_rss", Some("http://x.io/a"), "New Afro hit out", "",
              Some("ng"), 2, 120),
    TrendItem("c2", "reddit", Some(" HTTP://X.IO/A"), "new afro hit out now",
              "fans react", None, 2, 0),
    TrendItem("c3", "youtube", Some(""), "new afro hit\tout now ok", "",
              Some("ZA"), 5, 0 - 50),
    TrendItem("c4", "reddit", Some("http://x.io/b"), "Click  HERE to~ win", "",
              None, 0, 0),
    TrendItem("c5", "news_rss", Some("http://x.io/b"), "new  AFRO hit out ", "",
              None, 1, 0),
    TrendItem("c6", "youtube", None, "gain 1000", "Followers today",
              None, 9, 300),
    TrendItem("c7", "youtube", Some(" "), "ok~", "a long enough description",
              None, 0, 0),
    TrendItem("c8", "news_rss", Some(""), "new afro hit out today", "Buy ~ now",
              Some("NG"), 3, 10) }

\* The entities the enricher may have attached to an item before scoring.
EntityChoices ==
  { NoEntities,
    [t \in {"artists"} |-> <<"Burna Boy">>],
    [t \in {"artists", "people"} |->
       IF t = "artists" THEN <<"Burna Boy", "Wizkid">> ELSE <<"Tems">>] }

\* Most items handed to the cleaner between construction and the end of a
\* behaviour of CleanerSpec.
MaxFed == 2

\* Longest batch handed to clean_batch and then to dedupe_across_sources in
\* DedupeSpec.
MaxBatch == 3

SeqsUpTo(S, n) == UNION {[1..k -> S] : k \in 0..n}

VARIABLES
  seen_urls,      \* DataCleaner.seen_urls
  seen_hashes,    \* DataCleaner.seen_hashes
  fed,            \* items handed to clean_batch so far
  last_in,        \* argument of the latest clean_batch call
  last_out,       \* result of the latest clean_batch call
  clean_out,      \* everything clean_batch returned since the latest reset
  dedupe_in,      \* argument of the dedupe_across_sources call
  dedupe_groups,  \* its local variable groups (indices into dedupe_in)
  dedupe_out,     \* its result
  scored,         \* dedupe_out after enrichment, each with its confidence
  sources_config, \* config["sources"]: source name -> enabled
  init_raises,    \* the sources whose connector constructor raises
  connectors,     \* DataCollector.connectors, in insertion order
  pc,             \* where run_full_pipeline stands: "idle" or the stage at hand
  runs,           \* run_full_pipeline calls so far
  task,           \* per connector, its _collect_from_source coroutine
  fetch_calls,    \* per source, calls of connector.fetch in this collect_all
  fetch_outcome,  \* per connector, what its fetch did in this run
  task_result,    \* per connector, what gather holds for its coroutine
  collection_results, \* the "results" map collect_all returned
  all_items,      \* run_full_pipeline's locals, one per stage
  cleaned_items,
  enriched_items,
  classified_items,
  scored_items,
  stage_log,      \* the stages this run has entered, in order
  clean_entry,    \* the cleaner's two sets as clean_batch found them
  clean_history,  \* <<all_items, cleaned_items>> of every Clean stage so far
  raised,         \* the stage that raised in this run, and its message
  metrics,        \* the run's metrics dict
  ret,            \* what the latest run_full_pipeline call returned
  last_run,       \* PipelineOrchestrator.last_run (number of the run; 0 is None)
  last_run_metrics,
  sc_config,      \* the configuration the enricher, classifier and scorer read
  sc_item,        \* the TrendItem going through enrich, classify and score
  sc_stage,       \* the latest of these stages it went through
  sc_breakdown,   \* its ScoreBreakdown, once scored
  sc_prev,        \* an item scored earlier and its breakdown, to compare with
  sc_varied,      \* the field in which sc_item differs from that earlier item
  sc_summary,     \* its TrendSummary, once summarised
  sc_langdetect,  \* what langdetect did in enrich_item ("unused": not called)
  da_breakdown,   \* a ScoreBreakdown handed to _determine_action
  da_action,      \* what _determine_action returned for it
  vb_trends,      \* the list of dicts handed to validate_batch
  vb_report,      \* the dict validate_batch returned
  store_backend,  \* the storage class get_storage chose
  store_trends,   \* the rows of the table trends
  store_history,  \* the rows of the table trend_history
  store_runs,     \* the rows of the table pipeline_runs
  store_today,    \* the date of the latest save_trends call
  store_last,     \* the latest save_trends call: its records and its effect
  cli_pc,         \* where main.run_pipeline stands
  cli_calls,      \* the storage methods it has called, in order
  cli_exit,       \* its return value
  cli_before,     \* the tables as they were when it was called
  ti_new,         \* the latest TrendItem(...) call: its arguments and the item
  ti_old,         \* the TrendItem(...) call before it
  rk_pc,          \* the stage a classified batch is handed to next
  rk_classified,  \* classified_items of run_full_pipeline
  rk_scored,      \* its scored_items
  rk_summaries    \* its summaries

cleaner_vars == <<seen_urls, seen_hashes, fed, last_in, last_out, clean_out>>

dedupe_vars == <<dedupe_in, dedupe_groups, dedupe_out, scored>>

pipe_vars == <<sources_config, init_raises, connectors, pc, runs, task, fetch_calls,
               fetch_outcome, task_result, collection_results, all_items,
               cleaned_items, enriched_items, classified_items, scored_items,
               stage_log, clean_entry, clean_history, raised, metrics, ret,
               last_run, last_run_metrics>>

scorer_vars == <<sc_config, sc_item, sc_stage, sc_breakdown, sc_prev, sc_varied,
                 sc_summary, sc_langdetect>>

action_vars == <<da_breakdown, da_action>>

\* The variables of the components examined on their own.
validator_vars == <<vb_trends, vb_report>>

store_vars == <<store_backend, store_trends, store_history, store_runs, store_today,
                store_last>>

cli_vars == <<cli_pc, cli_calls, cli_exit, cli_before>>

item_vars == <<ti_new, ti_old>>

rank_vars == <<rk_pc, rk_classified, rk_scored, rk_summaries>>

unit_vars == <<item_vars, rank_vars>>

rest_vars == <<validator_vars, store_vars, cli_vars, unit_vars>>

side_vars == <<scorer_vars, action_vars, rest_vars>>

vars == <<cleaner_vars, dedupe_vars, pipe_vars, side_vars>>

NoDedupe ==
  /\ dedupe_in = <<>>
  /\ dedupe_groups = <<>>
  /\ dedupe_out = <<>>
  /\ scored = <<>>

\* ------------------------------------------------------------------------
\* Items and configurations for the enricher, the classifier and the scorer
\* ------------------------------------------------------------------------

\* config["topics"] in the order of the dict.
Topics ==
  << [key |-> "music_audio", name |-> "Music & Audio",
      keywords |-> <<"music", "artist", "song", "album", "concert">>],
     [key |-> "culture", name |-> "Culture",
      keywords |-> <<"meme", "viral", "trend">>],
     [key |-> "spotify_specific", name |-> "Spotify Specific",
      keywords |-> <<"spotify", "playlist", "wrapped">>],
     [key |-> "current_affairs", name |-> "Current Affairs",
      keywords |-> <<"election">>],
     [key |-> "sports", name |-> "Sports", keywords |-> <<"football">>] >>

\* config["entities"]
SeedEntities == [t \in {"artists"} |-> <<"Burna Boy", "Wizkid", "Tems">>]

\* config["scoring"]["risk_keywords"]
RiskKeywords ==
  [high |-> <<"death", "scandal">>, medium |-> <<"controversy", "protest">>,
   low |-> <<"issue", "problem">>]

\* The weights of config["markets"]["priority"], in tenths: two priority
\* markets, one of them beyond the cap, and a secondary market.
MarketWeights ==
  [m \in {"NG", "ZA", "KE"} |-> CASE m = "NG" -> 15 [] m = "ZA" -> 25 [] m = "KE" -> 5]

\* config["scoring"]["weights"] in hundredths: the defaults, and two other
\* choices that sum to 1.0.
WeightChoices ==
  { [velocity |-> 25, reach |-> 20, market_impact |-> 20,
     spotify_adjacency |-> 20, risk_factor |-> 15],
    [velocity |-> 0, reach |-> 0, market_impact |-> 100,
     spotify_adjacency |-> 0, risk_factor |-> 0],
    [velocity |-> 40, reach |-> 30, market_impact |-> 0,
     spotify_adjacency |-> 10, risk_factor |-> 20] }

ScorerConfigs ==
  { [topics |-> Topics, entities |-> SeedEntities,
     scoring |-> [weights |-> w, market_weights |-> MarketWeights,
                  risk_keywords |-> RiskKeywords]] : w \in WeightChoices }

\* A volume beyond every bucket of _score_reach.
HugeVolume == 1000000000

\* TrendItem(id="1", source=..., title=..., description=..., market=...,
\* velocity=..., volume=..., engagement=...)
ScoredItem(source, title, description, market, velocity, volume, engagement) ==
  [TrendItem("1", source, None, title, description, market, engagement, velocity)
     EXCEPT !.volume = volume]

ScorerItems ==
  { ScoredItem("test", "Burna Boy releases new single", "", Some("NG"),
               120, 20000, 8000),
    ScoredItem("news_rss", "Burna Boy releases new single", "", Some("NG"),
               120, 20000, 8000),
    ScoredItem("reddit", "Burna Boy releases new single", "", Some("NG"),
               120, 20000, 8000),
    ScoredItem("youtube", "Wizkid and Tems concert in Lagos", "New song live",
               None, 200, 400000, 300000),
    ScoredItem("test", "Spotify outage scandal", "Platform faces backlash",
               Some("ZA"), 0, 0, 0),
    ScoredItem("news_rss", "Celebrity death shocks nation", "Sudden death",
               Some("ZA"), 250, HugeVolume, 50000),
    ScoredItem("news_rss", "Political protest in Kenya",
               "Youth march against new policies", None, 300, 30000, 15000),
    ScoredItem("reddit", "Boomplay pricing controversy", "", Some("GH"),
               50, 500, 0),
    ScoredItem("reddit", "Viral moment", "a problem for nobody", Some("KE"),
               0 - 500, 40, 20),
    ScoredItem("youtube", "Street style week", "", None, 10, 0, 60),
    ScoredItem("news_rss", "Minister praises Tems album", "", Some("NG"),
               200, 900000, 50000),
    ScoredItem("twitter", "Playlist trend", "listen now", Some("ZA"),
               20, 100, 450),
    ScoredItem("news_rss", "Election meme", "", Some("KE"), 50, 500, 10),
    ScoredItem("reddit", "Football final protest", "", None, 100, 1000, 0),
    ScoredItem("youtube", "Football final tonight", "", Some("NG"),
               150, 5000, 100),
    ScoredItem("reddit", "Burna Boy, Wizkid and Tems on one stage", "", Some("GH"),
               100, 100, 100),
    ScoredItem("news_rss", "Le roi de la musique est ici", "", None, 0, 10, 0),
    ScoredItem("reddit", "Uma festa para todos", "", None, 0, 10, 0),
    ScoredItem("twitter", "Muziki wa bongo na wasanii", "", None, 0, 10, 0),
    [ScoredItem("youtube", "Mix", "", None, 0, 10, 0)
       EXCEPT !.raw_text = "^^^ new afrobeats mix out"],
    [ScoredItem("test", "Orin tuntun lati Eko de bayi", "", None, 0, 10, 0)
       EXCEPT !.language = Some("yo")] }

\* What spaCy may extract, when it is installed.
NlpChoices ==
  { NoEntities,
    [t \in {"people", "places"} |->
       IF t = "people" THEN <<"Burna Boy", "Tems">> ELSE <<"Lagos">>] }

\* What langdetect may do: not installed, raising, or returning a code.
LangdetectChoices == {"absent", "raises", "so"}

\* The velocities an item is scored again with, in hundredths: the bucket
\* boundaries and values on both sides of them.
VelocityChoices == {0 - 500, 0, 1, 10, 19, 20, 49, 50, 99, 100, 120, 199, 200, 300}

TopicChoices ==
  {None, Some("music_audio"), Some("culture"), Some("current_affairs"),
   Some("brand_comms"), Some("spotify_specific")}

VolumeChoices == {0, 99, 100, 999, 1000, 10000, 100000, 1000000, HugeVolume}

MarketChoices == {None, Some(""), Some("NG"), Some("ZA"), Some("KE"), Some("GH")}

\* No item goes through the stages on its own.
ScorerQuiet ==
  /\ sc_config = CHOOSE c \in ScorerConfigs : c.scoring.weights.velocity = 25
  /\ sc_item = None
  /\ sc_stage = "none"
  /\ sc_breakdown = None
  /\ sc_prev = None
  /\ sc_varied = ""
  /\ sc_summary = None
  /\ sc_langdetect = "unused"

\* The values of risk_level, total_score (in hundredths) and
\* spotify_adjacency_score a breakdown is handed to _determine_action with.
RiskLevels == {"low", "medium", "high"}

TotalChoices == {0, 1250, 3000, 5999, 6000, 6450, 7999, 8000, 9000, 10000}

\* The values _score_spotify_adjacency returns.
AdjacencyChoices == {20, 40, 60, 70, 80, 90, 95, 100}

\* _determine_action is not called.
ActionQuiet ==
  /\ da_breakdown = None
  /\ da_action = ""

\* The dicts validate_batch is handed: levels inside and outside the enum,
\* scores inside, between and outside the three ranges, records with and
\* without the keys.
LevelChoices == {None, Some("low"), Some("medium"), Some("high"), Some("critical")}

RiskScoreChoices ==
  {None, Some(0 - 50), Some(330), Some(335), Some(665), Some(670), Some(1000),
   Some(1500)}

Trend(id, risk_level, risk_score, last_updated) ==
  [id |-> id, risk_level |-> risk_level, risk_score |-> risk_score,
   last_updated |-> last_updated]

ValidatorTrends ==
  {Trend(Some("1"), l, s, None) : l \in LevelChoices, s \in RiskScoreChoices}
  \cup {Trend(None, Some(l), Some(s), Some(a)) :
          l \in {"low", "high"}, s \in {330, 665}, a \in {2, 25}}

\* Most trends in a batch.
MaxTrends == 2

\* validate_batch is not called.
ValidatorQuiet ==
  /\ vb_trends = <<>>
  /\ vb_report = None

\* The records save_trends is handed: two versions of one trend, and a trend
\* without last_updated.
StoreRecords ==
  { TrendRecord("t1", "Afro hit", "news_rss", 50, Some(1)),
    TrendRecord("t1", "Afro hit remix", "reddit", 70, Some(2)),
    TrendRecord("t2", "Lagos fashion week", "reddit", 50, None) }

\* Most records in one save_trends call.
MaxSaved == 2

\* The dates of the calls.
Days == {1, 2}

Backends == {"sqlite", "postgres"}

NoSave == [called |-> FALSE, records |-> <<>>, before |-> <<>>, saved |-> 0,
           repeated |-> FALSE]

\* A store nothing is written to.
StoreQuiet ==
  /\ store_backend = "sqlite"
  /\ store_trends = <<>>
  /\ store_history = {}
  /\ store_runs = <<>>
  /\ store_today = 1
  /\ store_last = NoSave

\* main.run_pipeline is not called.
CliQuiet ==
  /\ cli_pc = "none"
  /\ cli_calls = <<>>
  /\ cli_exit = None
  /\ cli_before = None

\* No TrendItem is constructed on its own.
ItemQuiet ==
  /\ ti_new = None
  /\ ti_old = None

\* No batch is scored on its own.
RankQuiet ==
  /\ rk_pc = "none"
  /\ rk_classified = <<>>
  /\ rk_scored = <<>>
  /\ rk_summaries = <<>>

UnitQuiet == ItemQuiet /\ RankQuiet

RestQuiet == ValidatorQuiet /\ StoreQuiet /\ CliQuiet /\ UnitQuiet

\* ------------------------------------------------------------------------
\* DataCollector and PipelineOrchestrator
\* ------------------------------------------------------------------------

Item(id) == CHOOSE c \in Catalog : c.id = id

\* The keys of config["sources"], in the order of the configuration.
SourceNames == <<"news_rss", "reddit", "culture_search">>

CONNECTOR_REGISTRY ==
  {"google_trends", "reddit", "news_rss", "wikipedia", "youtube", "twitter",
   "tiktok", "instagram", "spotify_internal", "artist_spikes", "style_signals"}

\* The connectors whose constructor may raise.
CtorMayRaise == {"reddit"}

\* _init_connectors with "continue" written "break": the first disabled source
\* ends the loop.
init_connectors_break(config, raising) ==
  LET stop == {i \in 1..Len(SourceNames) : ~config[SourceNames[i]]}
      upTo == IF stop = {} THEN Len(SourceNames)
              ELSE (CHOOSE i \in stop : \A j \in stop : i <= j) - 1
  IN SelectSeq(SubSeq(SourceNames, 1, upTo),
               LAMBDA n : n \in CONNECTOR_REGISTRY /\ n \notin raising)

\* _init_connectors: the enabled sources, in configuration order, whose name
\* get_connector knows and whose constructor returns.
init_connectors(config, raising) ==
  SelectSeq(SourceNames,
            LAMBDA n : config[n] /\ n \in CONNECTOR_REGISTRY /\ n \notin raising)

ConnectorResult(source, status, items, errors) ==
  [type |-> "ConnectorResult", source |-> source, status |-> status,
   items |-> items, errors |-> errors]

\* A value that is no ConnectorResult: None, as a fetch may return it.
NotAResult ==
  [type |-> "NoneType", source |-> "", status |-> "", items |-> <<>>, errors |-> <<>>]

\* An exception object held by gather in place of a result.
ExceptionValue(msg) ==
  [type |-> "Exception", source |-> "", status |-> "", items |-> <<>>,
   errors |-> <<msg>>]

Absent ==
  [type |-> "absent", source |-> "", status |-> "", items |-> <<>>, errors |-> <<>>]

\* What connector.fetch may return.
FetchReturns(n) ==
  IF n = "news_rss"
  THEN {ConnectorResult(n, "active", <<Item("c1"), Item("c5")>>, <<>>),
        ConnectorResult(n, "degraded", <<Item("c8")>>, <<>>),
        ConnectorResult(n, "active", <<>>, <<>>)}
  ELSE {ConnectorResult(n, "active", <<Item("c4"), Item("c2")>>, <<>>),
        ConnectorResult(n, "unavailable", <<>>, <<"rate limited">>),
        NotAResult}

\* The messages of the exceptions fetch and the stages may raise.
Messages == {"timed out"}

NoOutcome == [kind |-> "none", msg |-> "", result |-> Absent]

\* _collect_from_source with the message left out of the failed result.
collect_from_source_no_message(name, outcome) ==
  IF outcome.kind = "raise"
  THEN ConnectorResult(name, "unavailable", <<>>, <<>>)
  ELSE outcome.result

\* _collect_from_source: what the coroutine returns, given what fetch did.
collect_from_source(name, outcome) ==
  IF outcome.kind = "raise"
  THEN ConnectorResult(name, "unavailable", <<>>, <<outcome.msg>>)
  ELSE outcome.result

\* asyncio.gather waiting for the first coroutine only.
join_ready_first(conns, tasks) ==
  conns = <<>> \/ \E i \in 1..Len(conns) : tasks[conns[i]] = "done"

\* await asyncio.gather(*tasks.values(), return_exceptions=True) returns once
\* every coroutine is done.
join_ready(conns, tasks) == \A i \in 1..Len(conns) : tasks[conns[i]] = "done"

\* The loop over zip(tasks.keys(), task_results).
gather_results(conns, held) ==
  [n \in {conns[i] : i \in 1..Len(conns)} |->
     IF held[n].type = "Exception"
     THEN ConnectorResult(n, "unavailable", <<>>, held[n].errors)
     ELSE held[n]]

\* all_items: the items of every ConnectorResult, in the order of the map.
RECURSIVE ItemsFrom(_, _, _)
ItemsFrom(conns, results, i) ==
  IF i > Len(conns) THEN <<>>
  ELSE (IF results[conns[i]].type = "ConnectorResult"
        THEN results[conns[i]].items ELSE <<>>)
       \o ItemsFrom(conns, results, i + 1)

AllStages == <<"collect", "clean", "enrich", "classify", "score", "summarise">>

\* The stages with enrich and classify written in the other order.
next_stage_swapped(stage) ==
  CASE stage = "collect" -> "clean"
    [] stage = "clean" -> "classify"
    [] stage = "classify" -> "enrich"
    [] stage = "enrich" -> "score"
    [] stage = "score" -> "summarise"
    [] stage = "summarise" -> "idle"

\* The order of the stages in run_full_pipeline.
next_stage(stage) ==
  CASE stage = "collect" -> "clean"
    [] stage = "clean" -> "enrich"
    [] stage = "enrich" -> "classify"
    [] stage = "classify" -> "score"
    [] stage = "score" -> "summarise"
    [] stage = "summarise" -> "idle"

\* The test "if not all_items" left out.
after_collect_no_test(items) == next_stage("collect")

\* if not all_items: return ... ; otherwise the Clean stage follows.
after_collect(items) == IF items = <<>> THEN "idle" ELSE next_stage("collect")

NoMetrics == [stages |-> <<>>, error |-> "", success |-> "unset"]

\* {}: a dict without keys
EmptyDict == [k \in {} |-> 0]

NotReturned ==
  [returned |-> FALSE, success |-> FALSE, message |-> "", error |-> "",
   metrics |-> NoMetrics, summaries |-> <<>>, stats |-> EmptyDict]

no_items_result(m) ==
  [returned |-> TRUE, success |-> FALSE,
   message |-> "No items collected from any source", error |-> "",
   metrics |-> m, summaries |-> <<>>, stats |-> EmptyDict]

\* The except block with the message left out of the metrics.
on_exception_no_metrics(msg, m) ==
  [returned |-> TRUE, success |-> FALSE, message |-> "", error |-> msg,
   metrics |-> [m EXCEPT !.success = "false"], summaries |-> <<>>,
   stats |-> EmptyDict]

\* except Exception as e: the failed result run_full_pipeline returns.
on_exception(msg, m) ==
  [returned |-> TRUE, success |-> FALSE, message |-> "", error |-> msg,
   metrics |-> [m EXCEPT !.error = msg, !.success = "false"], summaries |-> <<>>,
   stats |-> EmptyDict]

\* _compute_summary_stats: {} for no summaries; otherwise counts and score
\* statistics of the summaries, of which the number of trends is kept here.
\* Every key it counts by is a string or None replaced by "Unknown" and every
\* score a number, so it returns for whatever summarise_batch produced.
compute_summary_stats(summaries) ==
  IF summaries = <<>> THEN EmptyDict
  ELSE [k \in {"total_trends"} |-> Len(summaries)]

success_result(summaries, m) ==
  [returned |-> TRUE, success |-> TRUE, message |-> "", error |-> "",
   metrics |-> m, summaries |-> summaries,
   stats |-> compute_summary_stats(summaries)]

\* "Update instance state" keeping the metrics of the run before.
update_instance_state_stale(completed_at, m, before) ==
  [last_run |-> completed_at, last_run_metrics |-> before]

\* self.last_run = completed_at; self.last_run_metrics = metrics
update_instance_state(completed_at, m, before) ==
  [last_run |-> completed_at, last_run_metrics |-> m]

\* DataCleaner.reset clearing seen_hashes alone.
reset_sets_hashes_only(urls, hashes) == [seen_urls |-> urls, seen_hashes |-> {}]

\* DataCleaner.reset: the two sets as it leaves them.
reset_sets(urls, hashes) == [seen_urls |-> {}, seen_hashes |-> {}]

\* enrich_batch, classify_batch: one item out per item in, in order.  The
\* stages after Clean are followed by the items' ids: they change other
\* fields only.
enrich_batch(items) == [i \in 1..Len(items) |-> items[i].id]

classify_batch(ids) == [i \in 1..Len(ids) |-> ids[i]]

\* score_batch: the same items, sorted by total_score; the scores are not
\* part of this model, so every order is a possible result.
score_batch(ids) ==
  {[i \in 1..Len(ids) |-> ids[f[i]]] :
     f \in {g \in [1..Len(ids) -> 1..Len(ids)] :
              \A a, b \in 1..Len(ids) : a # b => g[a] # g[b]}}

\* summarise_batch leaving the last scored item without a summary.
summarise_batch_short(ids) ==
  [i \in 1..(Len(ids) - 1) |-> [trend_id |-> ids[i]]]

\* summarise_batch: one TrendSummary per scored item, in order; trend_id is
\* the item's id.
summarise_batch(ids) == [i \in 1..Len(ids) |-> [trend_id |-> ids[i]]]

\* Most run_full_pipeline calls in a behaviour.
MaxRuns == 2

Names == {SourceNames[i] : i \in 1..Len(SourceNames)}

Live == {connectors[i] : i \in 1..Len(connectors)}

CleanerFresh ==
  /\ seen_urls = {}
  /\ seen_hashes = {}
  /\ fed = 0
  /\ last_in = <<>>
  /\ last_out = <<>>
  /\ clean_out = <<>>

NoEntry == [entered |-> FALSE, seen_urls |-> {}, seen_hashes |-> {}]

NoRaise == [stage |-> "", msg |-> ""]

\* PipelineOrchestrator.__init__ for the configuration config.
OrchestratorInit(config, raising) ==
  /\ sources_config = config
  /\ init_raises = raising
  /\ connectors = init_connectors(config, raising)
  /\ pc = "idle"
  /\ runs = 0
  /\ task = [n \in Names |-> "none"]
  /\ fetch_calls = [n \in Names |-> 0]
  /\ fetch_outcome = [n \in Names |-> NoOutcome]
  /\ task_result = [n \in Names |-> Absent]
  /\ collection_results = [n \in {} |-> Absent]
  /\ all_items = <<>>
  /\ cleaned_items = <<>>
  /\ enriched_items = <<>>
  /\ classified_items = <<>>
  /\ scored_items = <<>>
  /\ stage_log = <<>>
  /\ clean_entry = NoEntry
  /\ clean_history = {}
  /\ raised = NoRaise
  /\ metrics = NoMetrics
  /\ ret = NotReturned
  /\ last_run = 0
  /\ last_run_metrics = NoMetrics

Init ==
  /\ CleanerFresh
  /\ NoDedupe
  /\ ScorerQuiet
  /\ ActionQuiet
  /\ RestQuiet
  /\ \E config \in [Names -> BOOLEAN] : \E raising \in SUBSET CtorMayRaise :
       OrchestratorInit(config, raising)

run_locals == <<all_items, cleaned_items, enriched_items, classified_items,
                scored_items>>

config_vars == <<sources_config, init_raises, connectors>>

history_vars == <<fed, last_in, last_out, clean_out, dedupe_vars, side_vars>>

\* run_full_pipeline is called; collect_all builds one coroutine per
\* connector and awaits gather.
StartRun ==
  /\ pc = "idle"
  /\ runs < MaxRuns
  /\ runs' = runs + 1
  /\ pc' = "collect"
  /\ stage_log' = <<"collect">>
  /\ task' = [n \in Names |-> IF n \in Live THEN "pending" ELSE "none"]
  /\ fetch_calls' = [n \in Names |-> 0]
  /\ fetch_outcome' = [n \in Names |-> NoOutcome]
  /\ task_result' = [n \in Names |-> Absent]
  /\ collection_results' = [n \in {} |-> Absent]
  /\ all_items' = <<>>
  /\ cleaned_items' = <<>>
  /\ enriched_items' = <<>>
  /\ classified_items' = <<>>
  /\ scored_items' = <<>>
  /\ clean_entry' = NoEntry
  /\ raised' = NoRaise
  /\ metrics' = NoMetrics
  /\ ret' = NotReturned
  /\ UNCHANGED <<config_vars, seen_urls, seen_hashes, history_vars, clean_history,
                 last_run, last_run_metrics>>

collect_unchanged == <<config_vars, pc, runs, collection_results, run_locals,
                       stage_log, clean_entry, clean_history, raised, metrics, ret,
                       last_run, last_run_metrics, seen_urls, seen_hashes,
                       history_vars>>

\* A coroutine of _collect_from_source starts and calls connector.fetch.
FetchStart(n) ==
  /\ task[n] = "pending"
  /\ task' = [task EXCEPT ![n] = "running"]
  /\ fetch_calls' = [fetch_calls EXCEPT ![n] = @ + 1]
  /\ UNCHANGED <<fetch_outcome, task_result, collect_unchanged>>

\* connector.fetch returns.
FetchReturn(n) ==
  /\ task[n] = "running"
  /\ \E r \in FetchReturns(n) :
       LET o == [kind |-> "return", msg |-> "", result |-> r]
       IN /\ fetch_outcome' = [fetch_outcome EXCEPT ![n] = o]
          /\ task_result' = [task_result EXCEPT ![n] = collect_from_source(n, o)]
  /\ task' = [task EXCEPT ![n] = "done"]
  /\ UNCHANGED <<fetch_calls, collect_unchanged>>

\* connector.fetch raises.
FetchRaise(n) ==
  /\ task[n] = "running"
  /\ \E msg \in Messages :
       LET o == [kind |-> "raise", msg |-> msg, result |-> Absent]
       IN /\ fetch_outcome' = [fetch_outcome EXCEPT ![n] = o]
          /\ task_result' = [task_result EXCEPT ![n] = collect_from_source(n, o)]
  /\ task' = [task EXCEPT ![n] = "done"]
  /\ UNCHANGED <<fetch_calls, collect_unchanged>>

AttributeError == "'NoneType' object has no attribute 'item_count'"

\* gather returns: collect_all builds its results and returns (or raises on a
\* result without item_count), and run_full_pipeline extracts all_items.
GatherJoin ==
  /\ pc = "collect"
  /\ join_ready(connectors, task)
  /\ LET results == gather_results(connectors, task_result)
         items == ItemsFrom(connectors, results, 1)
         m == [metrics EXCEPT !.stages = Append(@, <<"collect", Len(items)>>)]
     IN IF \E n \in Live : results[n].type # "ConnectorResult"
        THEN /\ raised' = [stage |-> "collect", msg |-> AttributeError]
             /\ ret' = on_exception(AttributeError, metrics)
             /\ pc' = "idle"
             /\ UNCHANGED <<collection_results, all_items, metrics>>
        ELSE /\ collection_results' = results
             /\ all_items' = items
             /\ metrics' = m
             /\ pc' = after_collect(items)
             /\ ret' = IF after_collect(items) = "idle" THEN no_items_result(m)
                       ELSE ret
             /\ UNCHANGED raised
  /\ UNCHANGED <<config_vars, runs, task, fetch_calls, fetch_outcome, task_result,
                 cleaned_items, enriched_items, classified_items, scored_items,
                 stage_log, clean_entry, clean_history, last_run, last_run_metrics,
                 seen_urls, seen_hashes, history_vars>>

stage_unchanged == <<config_vars, runs, task, fetch_calls, fetch_outcome,
                     task_result, collection_results, all_items, history_vars>>

\* Stage 2: reset, clean_batch, dedupe_across_sources.
CleanStage ==
  /\ pc = "clean"
  /\ LET rs == reset_sets(seen_urls, seen_hashes)
         r == clean_batch(all_items, rs.seen_urls, rs.seen_hashes)
         d == dedupe_across_sources(r.cleaned)
     IN /\ clean_entry' = [entered |-> TRUE, seen_urls |-> rs.seen_urls,
                           seen_hashes |-> rs.seen_hashes]
        /\ seen_urls' = r.seen_urls
        /\ seen_hashes' = r.seen_hashes
        /\ cleaned_items' = d
        /\ clean_history' = clean_history \cup {<<runs, all_items, d>>}
        /\ metrics' = [metrics EXCEPT !.stages = Append(@, <<"clean", Len(d)>>)]
  /\ stage_log' = Append(stage_log, "clean")
  /\ pc' = next_stage("clean")
  /\ UNCHANGED <<stage_unchanged, enriched_items, classified_items, scored_items,
                 raised, ret, last_run, last_run_metrics>>

\* Stage 2 raises after item k of the batch: the sets hold what the reset and
\* the first k items left in them.
CleanRaise ==
  /\ pc = "clean"
  /\ \E k \in 0..Len(all_items) : \E msg \in Messages :
       LET rs == reset_sets(seen_urls, seen_hashes)
           r == clean_batch(SubSeq(all_items, 1, k), rs.seen_urls, rs.seen_hashes)
       IN /\ clean_entry' = [entered |-> TRUE, seen_urls |-> rs.seen_urls,
                             seen_hashes |-> rs.seen_hashes]
          /\ seen_urls' = r.seen_urls
          /\ seen_hashes' = r.seen_hashes
          /\ raised' = [stage |-> "clean", msg |-> msg]
          /\ ret' = on_exception(msg, metrics)
  /\ stage_log' = Append(stage_log, "clean")
  /\ pc' = "idle"
  /\ UNCHANGED <<stage_unchanged, cleaned_items, enriched_items, classified_items,
                 scored_items, clean_history, metrics, last_run, last_run_metrics>>

later_unchanged == <<stage_unchanged, seen_urls, seen_hashes, clean_entry,
                     clean_history, cleaned_items>>

\* Stage 3
EnrichStage ==
  /\ pc = "enrich"
  /\ enriched_items' = enrich_batch(cleaned_items)
  /\ metrics' = [metrics EXCEPT
                   !.stages = Append(@, <<"enrich", Len(enrich_batch(cleaned_items))>>)]
  /\ stage_log' = Append(stage_log, "enrich")
  /\ pc' = next_stage("enrich")
  /\ UNCHANGED <<later_unchanged, classified_items, scored_items, raised, ret,
                 last_run, last_run_metrics>>

\* Stage 4
ClassifyStage ==
  /\ pc = "classify"
  /\ classified_items' = classify_batch(enriched_items)
  /\ metrics' = [metrics EXCEPT
                   !.stages = Append(@, <<"classify", Len(classify_batch(enriched_items))>>)]
  /\ stage_log' = Append(stage_log, "classify")
  /\ pc' = next_stage("classify")
  /\ UNCHANGED <<later_unchanged, enriched_items, scored_items, raised, ret,
                 last_run, last_run_metrics>>

\* Stage 5
ScoreStage ==
  /\ pc = "score"
  /\ \E sorted \in score_batch(classified_items) :
       /\ scored_items' = sorted
       /\ metrics' = [metrics EXCEPT !.stages = Append(@, <<"score", Len(sorted)>>)]
  /\ stage_log' = Append(stage_log, "score")
  /\ pc' = next_stage("score")
  /\ UNCHANGED <<later_unchanged, enriched_items, classified_items, raised, ret,
                 last_run, last_run_metrics>>

\* Stage 6, and the successful return.
SummariseStage ==
  /\ pc = "summarise"
  /\ LET summaries == summarise_batch(scored_items)
         m == [metrics EXCEPT !.stages = Append(@, <<"summarise", Len(summaries)>>),
                              !.success = "true"]
         state == update_instance_state(runs, m, last_run_metrics)
     IN /\ metrics' = m
        /\ last_run' = state.last_run
        /\ last_run_metrics' = state.last_run_metrics
        /\ ret' = success_result(summaries, m)
  /\ stage_log' = Append(stage_log, "summarise")
  /\ pc' = next_stage("summarise")
  /\ UNCHANGED <<later_unchanged, enriched_items, classified_items, scored_items,
                 raised>>

\* One of the stages 3 to 6 raises.
StageRaise ==
  /\ pc \in {"enrich", "classify", "score", "summarise"}
  /\ \E msg \in Messages :
       /\ raised' = [stage |-> pc, msg |-> msg]
       /\ ret' = on_exception(msg, metrics)
  /\ stage_log' = Append(stage_log, pc)
  /\ pc' = "idle"
  /\ UNCHANGED <<later_unchanged, enriched_items, classified_items, scored_items,
                 metrics, last_run, last_run_metrics>>

Next ==
  \/ StartRun
  \/ \E n \in Names : FetchStart(n)
  \/ \E n \in Names : FetchReturn(n)
  \/ \E n \in Names : FetchRaise(n)
  \/ GatherJoin
  \/ CleanStage
  \/ CleanRaise
  \/ EnrichStage
  \/ ClassifyStage
  \/ ScoreStage
  \/ SummariseStage
  \/ StageRaise

Spec == Init /\ [][Next]_vars

\* get_status(): last_run (None before the first successful run) and
\* last_run_metrics; the connectors' status is left out.
get_status ==
  [last_run |-> IF last_run = 0 THEN None ELSE Some(last_run),
   last_run_metrics |-> last_run_metrics]

\* ------------------------------------------------------------------------
\* The cleaner on its own
\* ------------------------------------------------------------------------

\* An orchestrator that is never run, and no item scored on its own.
PipeQuiet ==
  /\ OrchestratorInit([n \in Names |-> FALSE], {})
  /\ ScorerQuiet
  /\ ActionQuiet
  /\ RestQuiet

\* DataCleaner.__init__
CleanerInit ==
  /\ seen_urls = {}
  /\ seen_hashes = {}
  /\ fed = 0
  /\ last_in = <<>>
  /\ last_out = <<>>
  /\ clean_out = <<>>
  /\ NoDedupe
  /\ PipeQuiet

\* DataCleaner.reset
reset ==
  /\ seen_urls' = {}
  /\ seen_hashes' = {}
  /\ clean_out' = <<>>
  /\ UNCHANGED <<fed, last_in, last_out, dedupe_vars, pipe_vars, side_vars>>

\* DataCleaner.clean_batch(items)
CallCleanBatch ==
  \E items \in SeqsUpTo(Catalog, MaxFed - fed) :
    LET r == clean_batch(items, seen_urls, seen_hashes)
    IN /\ seen_urls' = r.seen_urls
       /\ seen_hashes' = r.seen_hashes
       /\ fed' = fed + Len(items)
       /\ last_in' = items
       /\ last_out' = r.cleaned
       /\ clean_out' = clean_out \o r.cleaned
       /\ UNCHANGED <<dedupe_vars, pipe_vars, side_vars>>

CleanerNext == reset \/ CallCleanBatch

CleanerSpec == CleanerInit /\ [][CleanerNext]_vars

\* The Clean stage up to its second call: a fresh (reset) cleaner has cleaned
\* one collected batch.
DedupeInit ==
  \E items \in SeqsUpTo(Catalog, MaxBatch) :
    LET r == clean_batch(items, {}, {})
    IN /\ seen_urls = r.seen_urls
       /\ seen_hashes = r.seen_hashes
       /\ fed = Len(items)
       /\ last_in = items
       /\ last_out = r.cleaned
       /\ clean_out = r.cleaned
       /\ NoDedupe
       /\ PipeQuiet

\* dedupe_across_sources(cleaned_items): the orchestrator hands it the result
\* of clean_batch.
CallDedupe ==
  /\ dedupe_groups = <<>>
  /\ dedupe_in' = last_out
  /\ dedupe_groups' = IF Len(last_out) <= 1 THEN [i \in 1..Len(last_out) |-> <<i>>]
                      ELSE GroupsFrom(last_out, 1, {}, <<>>)
  /\ dedupe_out' = dedupe_across_sources(last_out)
  /\ scored' = <<>>
  /\ UNCHANGED <<cleaner_vars, pipe_vars, side_vars>>

\* CommsScorer._determine_confidence on every record of dedupe_out, with the
\* entities the enricher gave the items.
CallScore ==
  /\ dedupe_out # <<>>
  /\ scored = <<>>
  /\ \E e \in EntityChoices :
       scored' = [i \in 1..Len(dedupe_out) |->
                    LET item == [dedupe_out[i] EXCEPT !.entities = e]
                    IN [item |-> item,
                        confidence_score |-> confidence_score(item),
                        confidence |-> determine_confidence(item)]]
  /\ UNCHANGED <<cleaner_vars, dedupe_in, dedupe_groups, dedupe_out, pipe_vars, side_vars>>

DedupeNext == CallDedupe \/ CallScore

DedupeSpec == DedupeInit /\ [][DedupeNext]_vars

\* ------------------------------------------------------------------------
\* One item through enrich, classify and score
\* ------------------------------------------------------------------------

\* An item as a connector built it, and the configuration the three
\* components were constructed with.
ScorerInit ==
  /\ CleanerFresh
  /\ NoDedupe
  /\ OrchestratorInit([n \in Names |-> FALSE], {})
  /\ ActionQuiet
  /\ RestQuiet
  /\ sc_config \in ScorerConfigs
  /\ \E item \in ScorerItems : sc_item = Some(item)
  /\ sc_stage = "cleaned"
  /\ sc_breakdown = None
  /\ sc_prev = None
  /\ sc_varied = ""
  /\ sc_summary = None
  /\ sc_langdetect = "unused"

scorer_others == <<cleaner_vars, dedupe_vars, pipe_vars, action_vars, rest_vars>>

\* enricher.enrich_item(item)
EnrichItem ==
  /\ sc_stage = "cleaned"
  /\ \E nlp \in NlpChoices, langdetect \in LangdetectChoices :
       /\ sc_item' = Some(enrich_item(sc_item[1], sc_config.entities, nlp, langdetect))
       /\ sc_langdetect' = IF Truthy(sc_item[1].language)
                               \/ Len(FullText(sc_item[1])) < MinDetectLen
                            THEN "unused" ELSE langdetect
  /\ sc_stage' = "enriched"
  /\ UNCHANGED <<sc_config, sc_breakdown, sc_prev, sc_varied, sc_summary,
                 scorer_others>>

\* classifier.classify_item(item)
ClassifyItem ==
  /\ sc_stage = "enriched"
  /\ sc_item' = Some(classify_item(sc_item[1], sc_config.topics))
  /\ sc_stage' = "classified"
  /\ UNCHANGED <<sc_config, sc_breakdown, sc_prev, sc_varied, sc_summary,
                 sc_langdetect, scorer_others>>

\* scorer.score_item(item)
ScoreItem ==
  /\ sc_stage = "classified"
  /\ sc_breakdown' = Some(score_item(sc_item[1], sc_config.scoring))
  /\ sc_stage' = "scored"
  /\ UNCHANGED <<sc_config, sc_item, sc_prev, sc_varied, sc_summary,
                 sc_langdetect, scorer_others>>

\* The items that differ from item in one field, with the name of the field.
Variants(item) ==
  {[field |-> "velocity", item |-> [item EXCEPT !.velocity = v]] :
     v \in VelocityChoices}
  \cup {[field |-> "topic", item |-> [item EXCEPT !.topic = t]] : t \in TopicChoices}
  \cup {[field |-> "volume", item |-> [item EXCEPT !.volume = n]] :
          n \in VolumeChoices}
  \cup {[field |-> "market", item |-> [item EXCEPT !.market = m]] :
          m \in MarketChoices}

\* scorer.score_item on an item that differs from the one scored before in
\* one field.
ScoreVariant ==
  /\ sc_stage = "scored"
  /\ sc_prev = None
  /\ \E v \in Variants(sc_item[1]) :
       /\ v.item # sc_item[1]
       /\ sc_item' = Some(v.item)
       /\ sc_breakdown' = Some(score_item(v.item, sc_config.scoring))
       /\ sc_varied' = v.field
  /\ sc_prev' = Some([item |-> sc_item[1], breakdown |-> sc_breakdown[1]])
  /\ UNCHANGED <<sc_config, sc_stage, sc_summary, sc_langdetect, scorer_others>>

\* summariser.summarise_item(item, breakdown)
SummariseItem ==
  /\ sc_stage = "scored"
  /\ sc_summary' = Some(summarise_item(sc_item[1], sc_breakdown[1]))
  /\ sc_stage' = "summarised"
  /\ UNCHANGED <<sc_config, sc_item, sc_breakdown, sc_prev, sc_varied,
                 sc_langdetect, scorer_others>>

ScorerNext ==
  \/ EnrichItem
  \/ ClassifyItem
  \/ ScoreItem
  \/ ScoreVariant
  \/ SummariseItem

ScorerSpec == ScorerInit /\ [][ScorerNext]_vars

\* ------------------------------------------------------------------------
\* validate_batch on its own
\* ------------------------------------------------------------------------

\* A batch of trends as the dashboard or a test builds it.
ValidatorInit ==
  /\ CleanerFresh
  /\ NoDedupe
  /\ OrchestratorInit([n \in Names |-> FALSE], {})
  /\ ScorerQuiet
  /\ ActionQuiet
  /\ StoreQuiet
  /\ CliQuiet
  /\ UnitQuiet
  /\ vb_trends \in SeqsUpTo(ValidatorTrends, MaxTrends)
  /\ vb_report = None

\* validator.validate_batch(trends)
ValidateBatch ==
  /\ vb_report = None
  /\ vb_report' = Some(validate_batch(vb_trends))
  /\ UNCHANGED <<vb_trends, cleaner_vars, dedupe_vars, pipe_vars, scorer_vars,
                 action_vars, store_vars, cli_vars, unit_vars>>

ValidatorNext == ValidateBatch

ValidatorSpec == ValidatorInit /\ [][ValidatorNext]_vars

\* ------------------------------------------------------------------------
\* save_trends on its own
\* ------------------------------------------------------------------------

\* storage.initialize() on a new database.
StoreInit ==
  /\ CleanerFresh
  /\ NoDedupe
  /\ OrchestratorInit([n \in Names |-> FALSE], {})
  /\ ScorerQuiet
  /\ ActionQuiet
  /\ ValidatorQuiet
  /\ CliQuiet
  /\ UnitQuiet
  /\ store_backend \in Backends
  /\ store_trends = <<>>
  /\ store_history = {}
  /\ store_runs = <<>>
  /\ store_today = 1
  /\ store_last = NoSave

\* storage.save_trends(records), on the day of the call before or later.
SaveTrends ==
  /\ \E records \in SeqsUpTo(StoreRecords, MaxSaved) :
     \E today \in {d \in Days : d >= store_today} :
       LET db == save_trends(store_backend, store_trends, store_history, records,
                             today)
       IN /\ store_trends' = db.trends
          /\ store_history' = db.history
          /\ store_today' = today
          /\ store_last' = [called |-> TRUE, records |-> records,
                            before |-> store_trends, saved |-> db.saved,
                            repeated |-> store_last.called
                                         /\ store_last.records = records]
  /\ UNCHANGED <<store_backend, store_runs, cleaner_vars, dedupe_vars, pipe_vars,
                 scorer_vars, action_vars, validator_vars, cli_vars, unit_vars>>

StoreNext == SaveTrends

StoreSpec == StoreInit /\ [][StoreNext]_vars

\* ------------------------------------------------------------------------
\* main.run_pipeline: one pipeline run and what it persists
\* ------------------------------------------------------------------------

\* TrendRecord.from_summary(summary)
from_summary(summary) ==
  TrendRecord(summary.trend_id, Item(summary.trend_id).title,
              Item(summary.trend_id).source, Item(summary.trend_id).engagement,
              Some(1))

\* What earlier runs have persisted: nothing, or two trends and their run.
PriorStores ==
  { [trends |-> <<>>, history |-> {}, runs |-> <<>>],
    [trends |-> << TrendRecord("c1", "New Afro hit", "news_rss", 1, Some(0)),
                   TrendRecord("old", "Older trend", "reddit", 40, Some(0)) >>,
     history |-> { [trend_id |-> "c1", snapshot_date |-> 1, total_score |-> 1],
                   [trend_id |-> "old", snapshot_date |-> 1, total_score |-> 40] },
     runs |-> << [success |-> "true", stages |-> << <<"collect", 2>> >>] >>] }

\* run_pipeline saving the run's metadata whatever the result.
run_pipeline_writes_always_record(result) ==
  (IF result.success /\ result.summaries # <<>> THEN <<"save_trends">> ELSE <<>>)
  \o <<"save_pipeline_run">>

\* The storage writes run_pipeline makes for the result of run_full_pipeline.
run_pipeline_writes(result) ==
  IF result.success
  THEN (IF result.summaries # <<>> THEN <<"save_trends">> ELSE <<>>)
       \o <<"save_pipeline_run">>
  ELSE <<>>

InSeq(x, seq) == \E i \in 1..Len(seq) : seq[i] = x

\* run_pipeline up to the call of run_full_pipeline: the storage is
\* initialized and the orchestrator constructed.
CliInit ==
  /\ CleanerFresh
  /\ NoDedupe
  /\ ScorerQuiet
  /\ ActionQuiet
  /\ ValidatorQuiet
  /\ UnitQuiet
  /\ \E config \in [Names -> BOOLEAN] : \E raising \in SUBSET CtorMayRaise :
       OrchestratorInit(config, raising)
  /\ store_backend \in Backends
  /\ \E prior \in PriorStores :
       /\ store_trends = prior.trends
       /\ store_history = prior.history
       /\ store_runs = prior.runs
       /\ cli_before = Some(prior)
  /\ store_today = 1
  /\ store_last = NoSave
  /\ cli_pc = "pipeline"
  /\ cli_calls = <<"initialize">>
  /\ cli_exit = None

\* result = await orchestrator.run_full_pipeline(): the one run of this
\* orchestrator.
CliPipelineStep ==
  /\ cli_pc = "pipeline"
  /\ runs = 0 \/ pc # "idle"
  /\ Next

\* run_full_pipeline has returned: the writes for its result, storage.close()
\* and the return value.
CliReturn ==
  /\ cli_pc = "pipeline"
  /\ pc = "idle"
  /\ ret.returned
  /\ LET writes == run_pipeline_writes(ret)
         records == [i \in 1..Len(ret.summaries) |-> from_summary(ret.summaries[i])]
     IN /\ IF InSeq("save_trends", writes)
           THEN \E today \in {d \in Days : d >= store_today} :
                  LET db == save_trends(store_backend, store_trends, store_history,
                                        records, today)
                  IN /\ store_trends' = db.trends
                     /\ store_history' = db.history
                     /\ store_today' = today
                     /\ store_last' = [called |-> TRUE, records |-> records,
                                       before |-> store_trends, saved |-> db.saved,
                                       repeated |-> FALSE]
           ELSE UNCHANGED <<store_trends, store_history, store_today, store_last>>
        /\ store_runs' = IF InSeq("save_pipeline_run", writes)
                         THEN save_pipeline_run(store_runs, ret.metrics)
                         ELSE store_runs
        /\ cli_calls' = cli_calls \o writes \o <<"close">>
  /\ cli_exit' = Some(IF ret.success THEN 0 ELSE 1)
  /\ cli_pc' = "done"
  /\ UNCHANGED <<store_backend, cli_before, cleaner_vars, dedupe_vars, pipe_vars,
                 scorer_vars, action_vars, validator_vars, unit_vars>>

CliNext == CliPipelineStep \/ CliReturn

CliSpec == CliInit /\ [][CliNext]_vars

\* ------------------------------------------------------------------------
\* _determine_action on its own
\* ------------------------------------------------------------------------

\* A ScoreBreakdown whose components have been filled in.
ActionInit ==
  /\ CleanerFresh
  /\ NoDedupe
  /\ OrchestratorInit([n \in Names |-> FALSE], {})
  /\ ScorerQuiet
  /\ RestQuiet
  /\ \E level \in RiskLevels, total \in TotalChoices, adj \in AdjacencyChoices :
       da_breakdown = Some([risk_level |-> level, total_score |-> total,
                            spotify_adjacency_score |-> adj])
  /\ da_action = ""

\* breakdown.suggested_action = self._determine_action(breakdown)
CallDetermineAction ==
  /\ da_action = ""
  /\ da_action' = determine_action(da_breakdown[1].risk_level,
                                   da_breakdown[1].total_score,
                                   da_breakdown[1].spotify_adjacency_score)
  /\ UNCHANGED <<da_breakdown, cleaner_vars, dedupe_vars, pipe_vars, scorer_vars,
                 rest_vars>>

ActionNext == CallDetermineAction

ActionSpec == ActionInit /\ [][ActionNext]_vars

\* ------------------------------------------------------------------------
\* TrendItem(...) on its own
\* ------------------------------------------------------------------------

\* f"{value}" of an Optional[str]
FormatOpt(value) == IF value = None THEN "None" ELSE value[1]

\* Whether a text is a digest of Sha256Hex16.
IsDigest(id) == Len(id) >= 10 /\ SubSeq(id, 1, 10) = "sha256:16:"

\* len(id): the digest is hexdigest()[:16], sixteen characters of the 64.
IdLen(id) == IF IsDigest(id) THEN 16 ELSE Len(id)

\* TrendItem.__post_init__ replacing the id whether or not one was given.
post_init_always(item) ==
  [item EXCEPT !.id = Sha256Hex16(item.source \o ":" \o item.title \o ":"
                                  \o FormatOpt(item.source_url))]

\* TrendItem.__post_init__
post_init(item) ==
  IF item.id = ""
  THEN [item EXCEPT !.id = Sha256Hex16(item.source \o ":" \o item.title \o ":"
                                       \o FormatOpt(item.source_url))]
  ELSE item

\* The arguments of the TrendItem(...) calls examined.
ItemIds == {"", "abc", "0123456789abcdef0"}

ItemSources == {"test", "reddit"}

ItemTitles == {"Test Title", ""}

ItemUrls == {None, Some("https://example.com"), Some("None")}

ItemArgs ==
  {TrendItem(id, source, url, title, "", None, 0, 0) :
     id \in ItemIds, source \in ItemSources, url \in ItemUrls, title \in ItemTitles}

ItemInit ==
  /\ CleanerFresh
  /\ NoDedupe
  /\ OrchestratorInit([n \in Names |-> FALSE], {})
  /\ ScorerQuiet
  /\ ActionQuiet
  /\ ValidatorQuiet
  /\ StoreQuiet
  /\ CliQuiet
  /\ ItemQuiet
  /\ RankQuiet

\* TrendItem(id=..., source=..., title=..., source_url=...): the generated
\* __init__ assigns the fields and calls __post_init__.
Construct ==
  /\ \E given \in ItemArgs :
       ti_new' = Some([given |-> given, item |-> post_init(given)])
  /\ ti_old' = ti_new
  /\ UNCHANGED <<cleaner_vars, dedupe_vars, pipe_vars, scorer_vars, action_vars,
                 validator_vars, store_vars, cli_vars, rank_vars>>

ItemNext == Construct

ItemSpec == ItemInit /\ [][ItemNext]_vars

\* ------------------------------------------------------------------------
\* score_batch and summarise_batch on a classified batch
\* ------------------------------------------------------------------------

\* Most items in a batch that is scored.
MaxScored == 3

\* The items of the batches: three that differ in their source only and so
\* get equal scores, and three others.
RankTitles ==
  {"Burna Boy releases new single", "Wizkid and Tems concert in Lagos",
   "Viral moment", "Spotify outage scandal"}

\* classify_batch(enrich_batch(...)) of the items, without spaCy and
\* langdetect.
RankItems ==
  {classify_item(enrich_item(item, SeedEntities, NoEntities, "absent"), Topics) :
     item \in {i \in ScorerItems : i.title \in RankTitles}}

\* The batches: the items of a cleaned batch are different items.
RankBatches ==
  {b \in SeqsUpTo(RankItems, MaxScored) :
     \A i, j \in 1..Len(b) : i # j => b[i] # b[j]}

RankInit ==
  /\ CleanerFresh
  /\ NoDedupe
  /\ OrchestratorInit([n \in Names |-> FALSE], {})
  /\ sc_config \in ScorerConfigs
  /\ sc_item = None
  /\ sc_stage = "none"
  /\ sc_breakdown = None
  /\ sc_prev = None
  /\ sc_varied = ""
  /\ sc_summary = None
  /\ sc_langdetect = "unused"
  /\ ActionQuiet
  /\ ValidatorQuiet
  /\ StoreQuiet
  /\ CliQuiet
  /\ ItemQuiet
  /\ rk_pc = "score"
  /\ rk_classified \in RankBatches
  /\ rk_scored = <<>>
  /\ rk_summaries = <<>>

rank_others == <<cleaner_vars, dedupe_vars, pipe_vars, scorer_vars, action_vars,
                 validator_vars, store_vars, cli_vars, item_vars>>

\* scored_items = self.scorer.score_batch(classified_items)
ScoreBatch ==
  /\ rk_pc = "score"
  /\ rk_scored' = score_batch_items(rk_classified, sc_config.scoring)
  /\ rk_pc' = "summarise"
  /\ UNCHANGED <<rk_classified, rk_summaries, rank_others>>

\* summaries = self.summariser.summarise_batch(scored_items)
SummariseBatch ==
  /\ rk_pc = "summarise"
  /\ rk_summaries' = summarise_batch_items(rk_scored)
  /\ rk_pc' = "done"
  /\ UNCHANGED <<rk_classified, rk_scored, rank_others>>

RankNext == ScoreBatch \/ SummariseBatch

RankSpec == RankInit /\ [][RankNext]_vars

\* ------------------------------------------------------------------------
\* Properties of the pipeline run (Spec)
\* ------------------------------------------------------------------------

IsPrefix(s, t) == Len(s) <= Len(t) /\ \A i \in 1..Len(s) : s[i] = t[i]

StageNames(m) == [i \in 1..Len(m.stages) |-> m.stages[i][1]]

\* C1: in every run the stages execute in the order collect, clean, enrich,
\* classify, score, summarise; none runs twice; and a stage starts only when
\* the stage before it has handed over the whole batch, one item out per
\* item in from Enrich on.
C1_StagesInOrder ==
  /\ IsPrefix(stage_log, AllStages)
  /\ IsPrefix(StageNames(metrics), stage_log)
  /\ pc \in {"clean", "enrich", "classify", "score", "summarise"} =>
       /\ StageNames(metrics) = stage_log
       /\ \E k \in 1..(Len(AllStages) - 1) :
            Len(stage_log) = k /\ pc = AllStages[k + 1]
  /\ Len(stage_log) >= 4 => Len(enriched_items) = Len(cleaned_items)
  /\ Len(stage_log) >= 5 => Len(classified_items) = Len(cleaned_items)
  /\ Len(stage_log) >= 6 /\ raised = NoRaise =>
       Len(scored_items) = Len(cleaned_items)
  /\ Len(stage_log) < 3 => enriched_items = <<>>
  /\ Len(stage_log) < 4 => classified_items = <<>>
  /\ Len(stage_log) < 5 => scored_items = <<>>

\* A run has gone through the six stages and returned its summaries.
C1_Witness ==
  /\ stage_log = AllStages
  /\ ret.success
  /\ Len(ret.summaries) >= 2

\* collect_all has returned to run_full_pipeline.
CollectReturned ==
  /\ runs > 0
  /\ pc # "collect"
  /\ raised.stage # "collect"

\* C2: whatever the interleaving of the fetches, the collect stage is left
\* only when every coroutine that was started has ended, its fetch having
\* returned or raised; the batch cleaned is the batch of those results and
\* no result joins it later.
C2_JoinAllBarrier ==
  (runs > 0 /\ pc # "collect") =>
     /\ \A n \in Live : task[n] = "done" /\ fetch_outcome[n].kind # "none"
     /\ CollectReturned =>
          /\ DOMAIN collection_results = Live
          /\ all_items = ItemsFrom(connectors, collection_results, 1)
          /\ \A n \in Live : collection_results[n] = task_result[n]

\* The Clean stage may start after two fetches, of which one raised and the
\* other returned items.
C2_Witness ==
  /\ pc = "clean"
  /\ \E n, m \in Live :
       /\ fetch_outcome[n].kind = "raise"
       /\ fetch_outcome[m].kind = "return"
       /\ fetch_outcome[m].result.items # <<>>

\* C3: a connector whose fetch raised is in the results of collect_all with
\* status unavailable and the exception's message as its error; collect_all
\* does not raise because of it; and the result of every other connector is
\* what its fetch returned.
C3_FetchFailureContained ==
  LET raisedIn == {n \in Live : fetch_outcome[n].kind = "raise"}
      wellTyped == \A n \in Live \ raisedIn :
                     fetch_outcome[n].result.type = "ConnectorResult"
  IN (runs > 0 /\ pc # "collect") =>
       /\ raised.stage = "collect" => ~wellTyped
       /\ CollectReturned =>
            /\ \A n \in raisedIn :
                 /\ collection_results[n].type = "ConnectorResult"
                 /\ collection_results[n].source = n
                 /\ collection_results[n].status = "unavailable"
                 /\ collection_results[n].errors = <<fetch_outcome[n].msg>>
                 /\ collection_results[n].items = <<>>
            /\ \A n \in Live \ raisedIn :
                 collection_results[n] = fetch_outcome[n].result

\* collect_all returned the results of one fetch that raised and of one that
\* returned items.
C3_Witness ==
  /\ CollectReturned
  /\ \E n, m \in DOMAIN collection_results :
       /\ fetch_outcome[n].kind = "raise"
       /\ fetch_outcome[m].kind = "return"
       /\ collection_results[m].items # <<>>
       /\ all_items = collection_results[m].items

\* C4 as stated: for each source enabled in the configuration, collect_all
\* calls fetch once and its results hold a result for the source.
C4_AsStated ==
  \A n \in Names :
    sources_config[n] =>
      /\ fetch_calls[n] <= 1
      /\ CollectReturned => fetch_calls[n] = 1 /\ n \in DOMAIN collection_results

Initialised(n) ==
  sources_config[n] /\ n \in CONNECTOR_REGISTRY /\ n \notin init_raises

\* C4 as amended: for each source enabled in the configuration whose
\* connector _init_connectors could build (its name is registered and its
\* constructor returned), one collect_all call calls fetch exactly once, a
\* failed fetch included, and the results hold one result for it; for every
\* other source there is no fetch and no result.
C4_OneFetchPerConnector ==
  \A n \in Names :
    /\ fetch_calls[n] <= 1
    /\ CollectReturned =>
         IF Initialised(n)
         THEN fetch_calls[n] = 1 /\ n \in DOMAIN collection_results
         ELSE fetch_calls[n] = 0 /\ n \notin DOMAIN collection_results

\* collect_all returned with every source enabled: one fetch raised, and the
\* source that is not registered was not fetched.
C4_Witness ==
  /\ CollectReturned
  /\ \A n \in Names : sources_config[n]
  /\ \E n \in Names : Initialised(n) /\ fetch_outcome[n].kind = "raise"
  /\ \E n \in Names : ~Initialised(n)

\* C5: when the collector returns no item, run_full_pipeline returns
\* success=false with a non-empty message and no summaries, raises nothing,
\* and runs none of the stages after collect.
C5_NoItemsCollected ==
  (CollectReturned /\ all_items = <<>>) =>
     /\ ret.returned
     /\ ~ret.success
     /\ ret.message # ""
     /\ ret.summaries = <<>>
     /\ raised = NoRaise
     /\ stage_log = <<"collect">>
     /\ pc = "idle"

\* Two connectors were fetched, one returned an empty result and the other
\* raised, and the run has returned.
C5_Witness ==
  /\ CollectReturned
  /\ all_items = <<>>
  /\ ret.returned
  /\ Cardinality(Live) = 2
  /\ \E n \in Live : fetch_outcome[n].kind = "return"

\* C6: when a stage raises, run_full_pipeline returns success=false with the
\* exception's message in metrics.error and no summaries, and the stage that
\* raised is the last stage of the run.
C6_StageExceptionCaught ==
  raised # NoRaise =>
     /\ ret.returned
     /\ ~ret.success
     /\ ret.metrics.error = raised.msg
     /\ ret.summaries = <<>>
     /\ pc = "idle"
     /\ stage_log # <<>>
     /\ stage_log[Len(stage_log)] = raised.stage
     /\ IsPrefix(stage_log, AllStages)

\* The score stage of a second run raised, after a first run that did not
\* succeed.
C6_Witness ==
  /\ raised.stage = "score"
  /\ runs = 2
  /\ last_run = 0
  /\ ret.returned

\* C7: the two sets are empty when the Clean stage of any run starts to clean
\* its batch, and the runs of one orchestrator that collected the same batch
\* have the same cleaned output.
C7_FreshSetsEachRun ==
  /\ clean_entry.entered =>
       clean_entry.seen_urls = {} /\ clean_entry.seen_hashes = {}
  /\ \A a, b \in clean_history : a[2] = b[2] => a[3] = b[3]

\* Two runs of one orchestrator cleaned the same batch, and kept an item.
C7_Witness ==
  \E a, b \in clean_history :
    /\ a[1] # b[1]
    /\ a[2] = b[2]
    /\ a[3] # <<>>

Bijections(n) ==
  {f \in [1..n -> 1..n] : \A a, b \in 1..n : a # b => f[a] # f[b]}

\* C11: a successful run returns one summary per item that came out of the
\* Clean stage: as many summaries as cleaned items, and the summaries'
\* trend_ids are the ids of the cleaned items, each item taken once.
C11_OneSummaryPerSurvivor ==
  ret.success =>
    /\ Len(ret.summaries) = Len(cleaned_items)
    /\ Len(enriched_items) = Len(cleaned_items)
    /\ Len(classified_items) = Len(cleaned_items)
    /\ Len(scored_items) = Len(cleaned_items)
    /\ \E f \in Bijections(Len(cleaned_items)) :
         \A i \in 1..Len(cleaned_items) :
           ret.summaries[i].trend_id = cleaned_items[f[i]].id

\* A run succeeded with two surviving items, summarised in the other order
\* than the cleaner output them.
C11_Witness ==
  /\ ret.success
  /\ Len(cleaned_items) = 2
  /\ Len(all_items) > 2
  /\ ret.summaries[1].trend_id = cleaned_items[2].id

\* ------------------------------------------------------------------------
\* Properties of the scorer (ScorerSpec, ActionSpec)
\* ------------------------------------------------------------------------

InPoints(x) == x >= 0 /\ x <= 100

\* C12: with component weights that sum to 1.0 and market weights that are
\* not negative, the five component scores of score_item lie within [0,100]
\* and so does total_score (held in hundredths: within 0..10000), also for
\* an item with a huge volume or a negative velocity.
C12_ScoresWithinBounds ==
  sc_breakdown # None =>
    LET b == sc_breakdown[1]
    IN /\ InPoints(b.velocity_score)
       /\ InPoints(b.reach_score)
       /\ InPoints(b.market_impact_score)
       /\ InPoints(b.spotify_adjacency_score)
       /\ InPoints(b.risk_score)
       /\ b.total_score >= 0
       /\ b.total_score <= 10000

\* An item with a huge volume, a negative velocity, a high-risk keyword under
\* an amplifying topic and a market whose weight exceeds 2.0 has been
\* scored.
C12_Witness ==
  /\ sc_breakdown # None
  /\ sc_item[1].volume = HugeVolume
  /\ sc_item[1].velocity < 0
  /\ sc_item[1].topic = Some("current_affairs")
  /\ sc_breakdown[1].risk_level = "high"
  /\ Truthy(sc_item[1].market)
  /\ market_weight(sc_config.scoring.market_weights, sc_item[1].market[1]) > 20

\* C13: of two items that differ in velocity only, the one with the greater
\* velocity never has the smaller velocity_score.
C13_VelocityMonotone ==
  (sc_varied = "velocity" /\ sc_prev # None) =>
    LET before == sc_prev[1]
        now == sc_breakdown[1]
    IN /\ before.item.velocity <= sc_item[1].velocity =>
            before.breakdown.velocity_score <= now.velocity_score
       /\ sc_item[1].velocity <= before.item.velocity =>
            now.velocity_score <= before.breakdown.velocity_score

\* An item scored at velocity 1.2 was scored again at velocity 2.0 and got a
\* greater velocity_score.
C13_Witness ==
  /\ sc_varied = "velocity"
  /\ sc_prev # None
  /\ sc_prev[1].item.velocity = 120
  /\ sc_item[1].velocity = 200
  /\ sc_prev[1].breakdown.velocity_score < sc_breakdown[1].velocity_score

\* The decision table, read top to bottom; total is in hundredths of a point.
ActionTable(level, total, adj) ==
  CASE level = "high" /\ adj >= 80 -> "escalate"
    [] level = "high" /\ adj < 80 -> "avoid"
    [] level # "high" /\ total >= 8000 /\ adj >= 70 -> "engage"
    [] level # "high" /\ total >= 8000 /\ adj < 70 -> "monitor"
    [] level # "high" /\ total >= 6000 /\ total < 8000 /\ adj >= 80 -> "partner"
    [] level = "medium" /\ total >= 6000 /\ total < 8000 /\ adj < 80 -> "monitor"
    [] level = "low" /\ total >= 6000 /\ total < 8000 /\ adj < 80 -> "engage"
    [] OTHER -> "monitor"

\* C14: for every risk_level, total_score and spotify_adjacency_score,
\* suggested_action is what the decision table gives; a high-risk breakdown
\* with adjacency 100 (a direct Spotify mention) is escalated, and a
\* high-risk breakdown never gets engage, partner or monitor.
C14_ActionFollowsTable ==
  da_action # "" =>
    LET b == da_breakdown[1]
    IN /\ da_action = ActionTable(b.risk_level, b.total_score,
                                  b.spotify_adjacency_score)
       /\ (b.risk_level = "high" /\ b.spotify_adjacency_score = 100) =>
            da_action = "escalate"
       /\ b.risk_level = "high" => da_action \in {"escalate", "avoid"}

\* A high-risk breakdown whose total is at least 80 and whose adjacency is
\* at least 80 was escalated.
C14_Witness ==
  /\ da_action = "escalate"
  /\ da_breakdown[1].total_score >= 8000
  /\ da_breakdown[1].spotify_adjacency_score >= 80

\* The item of the example has gone through enrich, classify and score.
BurnaBoyScored ==
  /\ sc_stage = "scored"
  /\ sc_prev = None
  /\ sc_item[1].title = "Burna Boy releases new single"
  /\ sc_item[1].description = ""
  /\ sc_item[1].market = Some("NG")
  /\ sc_item[1].velocity = 120
  /\ sc_item[1].volume = 20000
  /\ sc_item[1].engagement = 8000

DefaultWeights ==
  [velocity |-> 25, reach |-> 20, market_impact |-> 20,
   spotify_adjacency |-> 20, risk_factor |-> 15]

\* C15 as stated: the item gets topic music_audio, an adjacency score of at
\* least 70, risk_level low and the action engage or monitor.
C15_AsStated ==
  BurnaBoyScored =>
    /\ sc_item[1].topic = Some("music_audio")
    /\ sc_breakdown[1].spotify_adjacency_score >= 70
    /\ sc_breakdown[1].risk_level = "low"
    /\ sc_breakdown[1].suggested_action \in {"engage", "monitor"}

\* C15 as amended: the item gets topic music_audio, adjacency score 80 (one
\* artist detected), risk_level low, and the action the table gives for
\* adjacency 80: engage when the total is at least 80, partner when it is at
\* least 60, monitor below; with the default weights and weight 1.5 for NG
\* the total is 64.5 and the action is partner.
C15_BurnaBoyExample ==
  BurnaBoyScored =>
    LET b == sc_breakdown[1]
    IN /\ sc_item[1].topic = Some("music_audio")
       /\ sc_item[1].entities["artists"] = <<"Burna Boy">>
       /\ b.spotify_adjacency_score = 80
       /\ b.risk_level = "low"
       /\ b.risk_score = 10
       /\ b.suggested_action = (IF b.total_score >= 8000 THEN "engage"
                                ELSE IF b.total_score >= 6000 THEN "partner"
                                ELSE "monitor")
       /\ sc_config.scoring.weights = DefaultWeights =>
            b.total_score = 6450 /\ b.suggested_action = "partner"

\* The item of the example was scored with the default weights.
C15_Witness ==
  /\ BurnaBoyScored
  /\ sc_config.scoring.weights = DefaultWeights
  /\ sc_item[1].source = "news_rss"
  /\ sc_breakdown[1].suggested_action = "partner"

\* The highest tier of sc_config's risk keywords that occurs in the text.
HighestTierHit(item) ==
  LET text == Lower(FullText(item))
      hit(tier) == \E k \in 1..Len(tier) : Contains(text, Lower(tier[k]))
  IN IF hit(sc_config.scoring.risk_keywords.high) THEN "high"
     ELSE IF hit(sc_config.scoring.risk_keywords.medium) THEN "medium"
     ELSE "low"

\* C17: risk_level is the highest keyword tier with a hit in the item's
\* text, and two items that differ in topic only have the same risk_level.
C17_RiskLevelIgnoresTopic ==
  sc_breakdown # None =>
    /\ sc_breakdown[1].risk_level = HighestTierHit(sc_item[1])
    /\ (sc_varied = "topic" /\ sc_prev # None) =>
         /\ sc_prev[1].item = [sc_item[1] EXCEPT !.topic = sc_prev[1].item.topic]
         /\ sc_prev[1].breakdown.risk_level = sc_breakdown[1].risk_level

\* An item with a medium-tier keyword was scored under a topic that does not
\* amplify and again under brand_comms: the risk score rose from 60 to 90
\* and the level stayed medium.
C17_Witness ==
  /\ sc_varied = "topic"
  /\ sc_prev # None
  /\ sc_item[1].topic = Some("brand_comms")
  /\ sc_prev[1].breakdown.risk_score = 60
  /\ sc_breakdown[1].risk_score = 90
  /\ sc_breakdown[1].risk_level = "medium"

\* ------------------------------------------------------------------------
\* Properties of the cleaner (CleanerSpec)
\* ------------------------------------------------------------------------

NormUrl(x) == Strip(Lower(x.source_url[1]))

SameSourceTitle(a, b) == a.source = b.source /\ Lower(a.title) = Lower(b.title)

\* C8 as stated: between two resets, the items clean_batch has output never
\* include two items whose source_url is equal after lower-casing and
\* trimming, nor two with the same source and the same lower-cased title.
\* Two items whose source_url is the empty string are both kept.
C8_AsStated ==
  \A i, j \in 1..Len(clean_out) :
    i < j =>
      /\ ~(/\ clean_out[i].source_url # None
           /\ clean_out[j].source_url # None
           /\ NormUrl(clean_out[i]) = NormUrl(clean_out[j]))
      /\ ~SameSourceTitle(clean_out[i], clean_out[j])

\* C8 as amended: between two resets, the items clean_batch has output never
\* include two items with non-empty source_url that is equal after
\* lower-casing and trimming, nor two with the same source and the same
\* lower-cased normalized title.
C8_DedupBetweenResets ==
  \A i, j \in 1..Len(clean_out) :
    i < j =>
      /\ ~(/\ Truthy(clean_out[i].source_url)
           /\ Truthy(clean_out[j].source_url)
           /\ NormUrl(clean_out[i]) = NormUrl(clean_out[j]))
      /\ ~SameSourceTitle(clean_out[i], clean_out[j])

\* A second call, with no reset since the first, was handed an item of good
\* quality whose URL differs only in case and spacing from the URL of an item
\* output by the first call.
C8_Witness ==
  /\ Len(clean_out) > Len(last_out)
  /\ \E k \in 1..Len(last_in) : \E i \in 1..Len(clean_out) :
       LET x == normalize_item(last_in[k])
       IN /\ Truthy(x.source_url)
          /\ Truthy(clean_out[i].source_url)
          /\ x.source_url # clean_out[i].source_url
          /\ NormUrl(x) = NormUrl(clean_out[i])
          /\ Len(x.title) >= 3
          /\ \A m \in 1..Len(clean_out) : clean_out[m].id # x.id

SpamText(x) ==
  LET text == Lower(x.title \o " " \o x.description)
  IN \/ Contains(text, "click here")
     \/ Contains(text, "buy now")
     \/ Contains(text, "limited offer")
     \/ Contains(text, "act fast")
     \/ MatchesFollowers(text)

\* C9: no item output by clean_batch has a normalized title that is empty or
\* shorter than 3 characters, and none has title+description matching a spam
\* pattern, however long its text.
C9_QualityOfOutput ==
  \A i \in 1..Len(clean_out) :
    /\ clean_out[i].title # ""
    /\ Len(clean_out[i].title) >= 3
    /\ ~SpamText(clean_out[i])

\* One call was handed an item whose title is too short once normalized and an
\* item that is spam only across the title/description boundary, and output
\* neither.
C9_Witness ==
  /\ Len(last_in) = 2
  /\ last_out = <<>>
  /\ \E k \in 1..2 : Len(last_in[k].title) >= 3
                     /\ Len(normalize_item(last_in[k]).title) < 3
  /\ \E k \in 1..2 : LET x == normalize_item(last_in[k])
                     IN /\ SpamText(x)
                        /\ ~SpamText([x EXCEPT !.description = ""])
                        /\ ~SpamText([x EXCEPT !.title = ""])

\* ------------------------------------------------------------------------
\* Properties of the cross-source merge (DedupeSpec)
\* ------------------------------------------------------------------------

Range(f) == {f[x] : x \in DOMAIN f}

SimilarPairs ==
  {p \in (1..Len(dedupe_in)) \X (1..Len(dedupe_in)) :
     /\ p[1] < p[2]
     /\ dedupe_in[p[1]].source # dedupe_in[p[2]].source
     /\ are_similar(dedupe_in[p[1]].title, dedupe_in[p[2]].title)}

\* The pair p of dedupe_in is one record of dedupe_out, which lists both
\* sources and, once scored, has more confidence points than the same record
\* with a single source.
MergedAndBoosted(p) ==
  \E g \in 1..Len(dedupe_groups) :
    /\ {p[1], p[2]} \subseteq Range(dedupe_groups[g])
    /\ \A h \in 1..Len(dedupe_groups) :
         h # g => Range(dedupe_groups[h]) \cap {p[1], p[2]} = {}
    /\ dedupe_out[g].merged_sources # None
    /\ {dedupe_in[p[1]].source, dedupe_in[p[2]].source}
          \subseteq Range(dedupe_out[g].merged_sources[1])
    /\ scored # <<>> =>
         LET single == [scored[g].item EXCEPT !.merged_sources = None]
         IN /\ scored[g].item.merged_sources = dedupe_out[g].merged_sources
            /\ scored[g].confidence_score > confidence_score(single)

\* C10 as stated: any two items from different sources whose titles have
\* Jaccard similarity at or above the threshold come out of
\* dedupe_across_sources as exactly one record listing both sources, with
\* boosted confidence.
C10_AsStated ==
  dedupe_groups # <<>> => \A p \in SimilarPairs : MergedAndBoosted(p)

NoEarlierSimilar(p) ==
  \A k \in 1..(p[1] - 1) :
    /\ ~are_similar(dedupe_in[k].title, dedupe_in[p[1]].title)
    /\ ~are_similar(dedupe_in[k].title, dedupe_in[p[2]].title)

\* C10 as amended: two items from different sources whose titles have Jaccard
\* similarity at or above the threshold, neither of them similar to an item
\* earlier in the batch than both, come out of dedupe_across_sources as
\* exactly one record whose merged_sources lists both source names, and the
\* scorer's confidence points for that record are higher than for the same
\* record scored with a single source.
C10_MergedWhenGroupedTogether ==
  dedupe_groups # <<>> =>
    \A p \in SimilarPairs : NoEarlierSimilar(p) => MergedAndBoosted(p)

\* A merged record of two sources has been scored.
C10_Witness ==
  /\ scored # <<>>
  /\ \E p \in SimilarPairs : NoEarlierSimilar(p)

\* The points of the claim: sources counted once each.
StatedPoints(item) ==
  LET names == IF item.merged_sources # None
               THEN {item.merged_sources[1][k] : k \in 1..Len(item.merged_sources[1])}
               ELSE {item.source}
      source_count == Cardinality(names)
      entity_count == SumLens(item.entities, DOMAIN item.entities)
  IN (IF source_count >= 3 THEN 3 ELSE IF source_count >= 2 THEN 2 ELSE 1)
     + (IF entity_count >= 3 THEN 2 ELSE IF entity_count >= 1 THEN 1 ELSE 0)
     + (IF item.velocity > 0 THEN 2 ELSE 0)
     + (IF Truthy(item.market) THEN 1 ELSE 0)

\* C16 as stated: the confidence of every scored record is high, medium or
\* low for at least 6, at least 3 or fewer points, the points being +3, +2 or
\* +1 for at least 3, at least 2 or 1 distinct merged sources, +2 or +1 for
\* at least 3 or at least 1 entities, +2 for velocity > 0 and +1 for a market.
C16_AsStated ==
  \A i \in 1..Len(scored) :
    LET p == StatedPoints(scored[i].item)
    IN /\ scored[i].confidence_score = p
       /\ scored[i].confidence =
            (IF p >= 6 THEN "high" ELSE IF p >= 3 THEN "medium" ELSE "low")

\* ------------------------------------------------------------------------
\* Properties of the validator (ValidatorSpec)
\* ------------------------------------------------------------------------

\* The trend carries both keys, and its level is low with a score above 66
\* or high with a score below 34.
Inconsistent(trend) ==
  /\ trend.risk_level # None
  /\ trend.risk_score # None
  /\ \/ trend.risk_level[1] = "low" /\ trend.risk_score[1] > 660
     \/ trend.risk_level[1] = "high" /\ trend.risk_score[1] < 340

\* Nothing but consistency and freshness can be wrong with the trend: its
\* level is in the enum and its score within [0,100].
SchemaValid(trend) ==
  /\ trend.risk_level # None => trend.risk_level[1] \in valid_risk_levels
  /\ trend.risk_score # None => trend.risk_score[1] >= 0 /\ trend.risk_score[1] <= 1000

\* C18: every trend of the batch whose risk_level is low with risk_score > 66,
\* or high with risk_score < 34, has a result that is not valid, of severity
\* warning, for its consistency, and no consistency result of severity
\* error; a batch in which no level is outside the enum and no score outside
\* [0,100] has no errors and is_valid true.
C18_InconsistencyIsWarning ==
  vb_report # None =>
    LET report == vb_report[1]
        results == report.results
    IN /\ \A i \in 1..Len(vb_trends) :
            Inconsistent(vb_trends[i]) =>
              /\ \E k \in 1..Len(results) :
                   /\ results[k].trend_index = i - 1
                   /\ ~results[k].result.is_valid
                   /\ results[k].result.severity = "warning"
                   /\ results[k].result.field = Some("risk_consistency")
              /\ \A k \in 1..Len(results) :
                   (/\ results[k].trend_index = i - 1
                    /\ results[k].result.field = Some("risk_consistency"))
                   => results[k].result.severity # "error"
       /\ (\A i \in 1..Len(vb_trends) : SchemaValid(vb_trends[i])) =>
            report.is_valid /\ report.errors = 0

\* A batch with a low trend of score 100 and a high trend of score 33, both
\* within the schema, has been validated: two warnings or more, is_valid true.
C18_Witness ==
  /\ vb_report # None
  /\ Len(vb_trends) = 2
  /\ vb_trends[1].risk_level = Some("low")
  /\ vb_trends[1].risk_score = Some(1000)
  /\ vb_trends[2].risk_level = Some("high")
  /\ vb_trends[2].risk_score = Some(330)
  /\ vb_report[1].warnings >= 2
  /\ vb_report[1].is_valid

\* ------------------------------------------------------------------------
\* Properties of the store (StoreSpec)
\* ------------------------------------------------------------------------

\* C19: after any sequence of save_trends calls the table trends holds at
\* most one row per id, and a call with the same list of records as the
\* call before it leaves the table as it found it.
C19_SaveTrendsIdempotentUpsert ==
  /\ \A i, j \in 1..Len(store_trends) :
       store_trends[i].id = store_trends[j].id => i = j
  /\ (store_last.called /\ store_last.repeated) =>
       store_trends = store_last.before

\* A list of two versions of one trend was saved twice in a row, onto a table
\* that held another row already.
C19_Witness ==
  /\ store_last.called
  /\ store_last.repeated
  /\ store_last.saved = 2
  /\ Len(store_last.records) = 2
  /\ store_last.records[1].id = store_last.records[2].id
  /\ store_last.records[1] # store_last.records[2]
  /\ Len(store_trends) = 2

\* ------------------------------------------------------------------------
\* Properties of main.run_pipeline (CliSpec)
\* ------------------------------------------------------------------------

\* C20: when the run ended with success false, run_pipeline has called
\* neither save_trends nor save_pipeline_run, and the tables hold what they
\* held before the run.
C20_FailedRunWritesNothing ==
  (cli_pc = "done" /\ ~ret.success) =>
    /\ ~InSeq("save_trends", cli_calls)
    /\ ~InSeq("save_pipeline_run", cli_calls)
    /\ store_trends = cli_before[1].trends
    /\ store_history = cli_before[1].history
    /\ store_runs = cli_before[1].runs
    /\ cli_exit = Some(1)

\* A run that had cleaned its items and then raised in a later stage has
\* ended, on a store that held trends of earlier runs.
C20_Witness ==
  /\ cli_pc = "done"
  /\ ~ret.success
  /\ raised.stage \in {"enrich", "classify", "score", "summarise"}
  /\ cleaned_items # <<>>
  /\ store_trends # <<>>

\* ------------------------------------------------------------------------
\* Properties of TrendItem(...) (ItemSpec)
\* ------------------------------------------------------------------------

SameTriple(a, b) ==
  /\ a.source = b.source
  /\ a.title = b.title
  /\ a.source_url = b.source_url

TableSentences ==
  {topic_risks(Some(t))[1] :
     t \in {"current_affairs", "brand_comms", "music_audio", "culture",
            "fashion_beauty", "spotify_specific"}}

\* C22 as the specification states it: two bullets, and an if_goes_wrong that
\* is the generic high-severity sentence when risk_level is high and the
\* table's sentence for the item's topic otherwise.
C22_AsStated ==
  sc_summary # None =>
    LET item == sc_item[1]
        breakdown == sc_breakdown[1]
        summary == sc_summary[1]
    IN /\ Len(summary.why_it_matters) = 2
       /\ IF breakdown.risk_level = "high"
          THEN summary.if_goes_wrong = high_risk_sentence(breakdown)
          ELSE /\ topic_risks(item.topic) # None
               /\ summary.if_goes_wrong = topic_risks(item.topic)[1]

\* C22: summarise_item produces exactly two why_it_matters bullets and one
\* if_goes_wrong text; the text is the generic high-severity sentence when
\* risk_level is high, whatever the topic; otherwise it is the table's
\* sentence for the item's topic when the table has that topic, and when it
\* has not (a configured topic outside the table, or no topic) the fallback
\* sentence of the risk level, which is no sentence of the table.
C22_SummaryShape ==
  sc_summary # None =>
    LET item == sc_item[1]
        breakdown == sc_breakdown[1]
        summary == sc_summary[1]
    IN /\ Len(summary.why_it_matters) = 2
       /\ \A i \in 1..2 : summary.why_it_matters[i] # ""
       /\ summary.if_goes_wrong # ""
       /\ IF breakdown.risk_level = "high"
          THEN /\ summary.if_goes_wrong = high_risk_sentence(breakdown)
               /\ summary.if_goes_wrong \notin TableSentences
          ELSE IF topic_risks(item.topic) # None
          THEN summary.if_goes_wrong = topic_risks(item.topic)[1]
          ELSE /\ summary.if_goes_wrong = fallback_sentence(breakdown.risk_level)
               /\ summary.if_goes_wrong \notin TableSentences

\* A high-risk item of a topic the table has was summarised with the generic
\* sentence, after being classified by the classifier.
C22_Witness ==
  /\ sc_summary # None
  /\ sc_prev = None
  /\ sc_breakdown[1].risk_level = "high"
  /\ topic_risks(sc_item[1].topic) # None
  /\ sc_summary[1].if_goes_wrong = high_risk_sentence(sc_breakdown[1])

\* ------------------------------------------------------------------------
\* Properties of the adjacency score (ScorerSpec)
\* ------------------------------------------------------------------------

\* Whether one of the words occurs in the lower-cased text.
Mentions(text, words) == \E w \in 1..Len(words) : Contains(Lower(text), words[w])

\* C23: spotify_adjacency_score is the first matching case of: Spotify
\* mentioned in title or description, 100; a competitor mentioned, 90; artist
\* entities present, min(70 + 10 x their number, 95); topic music_audio, 70;
\* a music keyword in the text, 60; topic culture, 40; otherwise 20.
C23_AdjacencyCascade ==
  sc_breakdown # None =>
    LET item == sc_item[1]
        score == sc_breakdown[1].spotify_adjacency_score
        text == item.title \o " " \o item.description
        spotify == Mentions(item.title, <<"spotify">>)
                   \/ Mentions(item.description, <<"spotify">>)
        competitor == Mentions(text, Competitors)
        artists == Len(ArtistsOf(item))
        keyword == Mentions(text, MusicKeywords)
    IN /\ spotify => score = 100
       /\ ~spotify /\ competitor => score = 90
       /\ ~spotify /\ ~competitor /\ artists > 0 =>
            /\ artists < 3 => score = 70 + 10 * artists
            /\ artists >= 3 => score = 95
       /\ ~spotify /\ ~competitor /\ artists = 0 =>
            /\ item.topic = Some("music_audio") => score = 70
            /\ item.topic # Some("music_audio") /\ keyword => score = 60
            /\ item.topic # Some("music_audio") /\ ~keyword =>
                 score = IF item.topic = Some("culture") THEN 40 ELSE 20

\* An item of topic music_audio with three artists and no mention of Spotify
\* or a competitor was scored: the artists, not the topic, set the score, at
\* the cap.
C23_Witness ==
  /\ sc_breakdown # None
  /\ sc_item[1].topic = Some("music_audio")
  /\ Len(ArtistsOf(sc_item[1])) = 3
  /\ sc_breakdown[1].spotify_adjacency_score = 95

\* ------------------------------------------------------------------------
\* Properties of classify_item (ScorerSpec)
\* ------------------------------------------------------------------------

\* The score the specification gives a topic: 10 per keyword hit, 15 per
\* artist entity for the topic music_audio, 5 when the source has an affinity
\* to the topic, at most 100.
StatedTopicScore(item, topic_data) ==
  Min(100, CountMatches(Lower(FullText(item)), topic_data.keywords, 1) * 10
           + (IF topic_data.key = "music_audio" THEN Len(ArtistsOf(item)) * 15 ELSE 0)
           + (IF source_topic_affinity(item.source) = topic_data.key THEN 5 ELSE 0))

\* C24 as the specification states it: classify_item assigns a topic whose
\* stated score is positive and the maximum over the configured topics, and
\* the default topic of the source when no topic has a positive score.
C24_AsStated ==
  sc_stage = "classified" =>
    LET item == sc_item[1]
        topics == sc_config.topics
        stated == [t \in 1..Len(topics) |-> StatedTopicScore(item, topics[t])]
    IN IF \A t \in 1..Len(topics) : stated[t] = 0
       THEN item.topic = Some(default_classification(item))
       ELSE \E t \in 1..Len(topics) :
              /\ item.topic = Some(topics[t].key)
              /\ \A u \in 1..Len(topics) : stated[u] <= stated[t]

\* ------------------------------------------------------------------------
\* Properties of dedupe_across_sources (DedupeSpec)
\* ------------------------------------------------------------------------

\* The groups are a partition of the input; each member after the first is
\* similar to the first; the output has one record per group, a member of
\* the group that no member exceeds in (engagement, len(description)).
PartitionAndSurvivor ==
  /\ \A i \in 1..Len(dedupe_in) :
       Cardinality({<<g, m>> \in (1..Len(dedupe_groups)) \X (1..Len(dedupe_in)) :
                      m <= Len(dedupe_groups[g]) /\ dedupe_groups[g][m] = i}) = 1
  /\ \A g \in 1..Len(dedupe_groups) :
       /\ dedupe_groups[g] # <<>>
       /\ \A m \in 2..Len(dedupe_groups[g]) :
            are_similar(dedupe_in[dedupe_groups[g][1]].title,
                        dedupe_in[dedupe_groups[g][m]].title)
  /\ Len(dedupe_out) = Len(dedupe_groups)
  /\ \A g \in 1..Len(dedupe_groups) :
       \E k \in 1..Len(dedupe_groups[g]) :
         LET kept == dedupe_in[dedupe_groups[g][k]]
         IN /\ [dedupe_out[g] EXCEPT !.merged_sources = None] = kept
            /\ \A m \in 1..Len(dedupe_groups[g]) :
                 ~KeyLess(kept, dedupe_in[dedupe_groups[g][m]])

\* The sources of the members of a group, in group order, the one at
\* position k left out.
SourcesBut(group, k) ==
  LET others == SelectSeq([m \in 1..Len(group) |-> m], LAMBDA m : m # k)
  IN [m \in 1..Len(others) |-> dedupe_in[group[others[m]]].source]

\* C25 as the specification states it: the survivor of a group of more than
\* one item carries the source names of the group's other members.
C25_AsStated ==
  dedupe_groups # <<>> =>
    /\ PartitionAndSurvivor
    /\ \A g \in 1..Len(dedupe_groups) :
         Len(dedupe_groups[g]) > 1 =>
           \E k \in 1..Len(dedupe_groups[g]) :
             /\ [dedupe_out[g] EXCEPT !.merged_sources = None]
                  = dedupe_in[dedupe_groups[g][k]]
             /\ dedupe_out[g].merged_sources = Some(SourcesBut(dedupe_groups[g], k))

\* C25: dedupe_across_sources partitions its input into groups whose later
\* members are each similar to the first, and outputs one record per group, a
\* member with maximal (engagement, description length); for a group of more
\* than one item the record's merged_sources lists the source of every
\* member of the group in group order, the survivor's own included, and a
\* record of a group of one carries no merged_sources.
C25_PartitionSurvivorAllSources ==
  dedupe_groups # <<>> =>
    /\ PartitionAndSurvivor
    /\ \A g \in 1..Len(dedupe_groups) :
         LET group == dedupe_groups[g]
         IN IF Len(group) > 1
            THEN dedupe_out[g].merged_sources
                   = Some([m \in 1..Len(group) |-> dedupe_in[group[m]].source])
            ELSE dedupe_out[g].merged_sources = None

\* A group of two was merged into its second member, which has the higher
\* engagement, next to a group of one.
C25_Witness ==
  /\ Len(dedupe_groups) = 2
  /\ \E g \in 1..2 :
       /\ Len(dedupe_groups[g]) = 2
       /\ [dedupe_out[g] EXCEPT !.merged_sources = None]
            = dedupe_in[dedupe_groups[g][2]]
       /\ KeyLess(dedupe_in[dedupe_groups[g][1]], dedupe_in[dedupe_groups[g][2]])
       /\ Len(dedupe_out[g].merged_sources[1]) = 2

\* ------------------------------------------------------------------------
\* Properties of enrich_item (ScorerSpec)
\* ------------------------------------------------------------------------

\* The codes the heuristic gives when a threshold is met.
HeuristicCodes == {"ar", "fr", "pt", "sw"}

\* C26 as the specification states it: after enrich_item an item has a
\* language.
C26_AsStated ==
  sc_stage = "enriched" => Truthy(sc_item[1].language)

\* The item of the scorer run as it was before enrich_item.
Unenriched(item) ==
  CHOOSE given \in ScorerItems :
    /\ given.title = item.title
    /\ given.source = item.source
    /\ given.raw_text = item.raw_text

\* Whether the text meets the threshold of one of the four languages.
ThresholdMet(text) ==
  \/ has_arabic(text)
  \/ french_count(Lower(text)) >= 3
  \/ portuguese_count(Lower(text)) >= 2
  \/ swahili_count(Lower(text)) >= 2

\* C26: after enrich_item an item whose language was set keeps it; an item
\* whose language was unset and whose text (title, description and raw_text
\* joined by spaces) has fewer than 20 characters still has none; one with a
\* longer text has the result of langdetect when that is installed (none when
\* it raises) and otherwise the heuristic's: ar, fr, pt or sw when the
\* threshold of that language is met, and en when none is.
C26_LanguageAfterEnrich ==
  sc_stage = "enriched" =>
    LET item == sc_item[1]
        given == Unenriched(item)
        text == FullText(given)
    IN /\ Truthy(given.language) => item.language = given.language
       /\ ~Truthy(given.language) /\ Len(text) < 20 => item.language = None
       /\ ~Truthy(given.language) /\ Len(text) >= 20 =>
            /\ sc_langdetect = "raises" => item.language = None
            /\ sc_langdetect \notin {"absent", "raises"} =>
                 item.language = Some(sc_langdetect)
            /\ sc_langdetect = "absent" =>
                 /\ item.language # None
                 /\ item.language[1] \in HeuristicCodes \cup {"en"}
                 /\ item.language[1] = "en" <=> ~ThresholdMet(text)
                 /\ item.language[1] = "ar" <=> has_arabic(text)

\* An English text of 20 characters or more got the default "en".
C26_Witness ==
  /\ sc_stage = "enriched"
  /\ Unenriched(sc_item[1]).language = None
  /\ Len(FullText(sc_item[1])) >= 20
  /\ sc_langdetect = "absent"
  /\ sc_item[1].language = Some("en")

\* ------------------------------------------------------------------------
\* Properties of the ranking (RankSpec)
\* ------------------------------------------------------------------------

\* The position in the classified batch of the item at position i of the
\* scored batch.
PosOf(i) == CHOOSE k \in 1..Len(rk_classified) : rk_classified[k] = rk_scored[i].item

\* C27: the summaries of a run are ranked.  score_batch returns the items of
\* the classified batch, each once, by total_score from highest to lowest,
\* items of equal total_score in the order they had in the classified batch;
\* summarise_batch returns one summary per scored item in the same order.
C27_SummariesRanked ==
  /\ rk_pc \in {"summarise", "done"} =>
       /\ Len(rk_scored) = Len(rk_classified)
       /\ \A k \in 1..Len(rk_classified) :
            \E i \in 1..Len(rk_scored) : rk_scored[i].item = rk_classified[k]
       /\ \A i \in 1..Len(rk_scored) :
            rk_scored[i].breakdown = score_item(rk_scored[i].item, sc_config.scoring)
       /\ \A i, j \in 1..Len(rk_scored) :
            i < j =>
              /\ rk_scored[i].breakdown.total_score >= rk_scored[j].breakdown.total_score
              /\ rk_scored[i].breakdown.total_score = rk_scored[j].breakdown.total_score
                   => PosOf(i) < PosOf(j)
       /\ [i \in 1..Len(rk_scored) |-> rk_scored[i].item.id]
            \in score_batch([k \in 1..Len(rk_classified) |-> rk_classified[k].id])
  /\ rk_pc = "done" =>
       /\ Len(rk_summaries) = Len(rk_scored)
       /\ \A i \in 1..Len(rk_summaries) :
            /\ rk_summaries[i].trend_id = rk_scored[i].item.id
            /\ rk_summaries[i].title = rk_scored[i].item.title
            /\ rk_summaries[i].sources = <<rk_scored[i].item.source>>

\* A batch of three was summarised whose last item has the highest score and
\* whose first two have equal scores: the last came first and the two kept
\* their order.
C27_Witness ==
  /\ rk_pc = "done"
  /\ Len(rk_summaries) = 3
  /\ rk_scored[1].item = rk_classified[3]
  /\ rk_scored[2].item = rk_classified[1]
  /\ rk_scored[2].breakdown.total_score = rk_scored[3].breakdown.total_score
  /\ rk_scored[1].breakdown.total_score > rk_scored[2].breakdown.total_score

\* ------------------------------------------------------------------------
\* The scorer's risk pair under the validator (ScorerSpec)
\* ------------------------------------------------------------------------

\* C28 as the specification states it: the risk_level and risk_score of every
\* breakdown score_item produces are judged consistent by
\* validate_risk_consistency (the validator's scores are in tenths).
C28_AsStated ==
  sc_breakdown # None =>
    validate_risk_consistency(sc_breakdown[1].risk_level,
                              sc_breakdown[1].risk_score * 10).is_valid

\* ------------------------------------------------------------------------
\* What clean_batch drops (CleanerSpec)
\* ------------------------------------------------------------------------

\* The cleaner has seen an item since the latest reset, so that the latest
\* clean_batch call came after it.
CalledSinceReset == seen_urls # {} \/ seen_hashes # {}

\* C29 as the specification states it: an item of good quality that the
\* latest clean_batch call did not output was dropped as a duplicate, and so
\* has a counterpart among the items output since the latest reset: one with
\* the same normalized source_url or the same source and lower-cased title.
C29_AsStated ==
  \A k \in 1..Len(last_in) :
    LET x == normalize_item(last_in[k])
    IN (/\ CalledSinceReset
        /\ passes_quality_check(x)
        /\ \A m \in 1..Len(last_out) : last_out[m] # x) =>
         \E i \in 1..Len(clean_out) :
           \/ /\ Truthy(x.source_url)
              /\ Truthy(clean_out[i].source_url)
              /\ NormUrl(clean_out[i]) = NormUrl(x)
           \/ SameSourceTitle(clean_out[i], x)

\* ------------------------------------------------------------------------
\* last_run and last_run_metrics (Spec)
\* ------------------------------------------------------------------------

\* What get_status reports in the next state.
get_status_next ==
  [last_run |-> IF last_run' = 0 THEN None ELSE Some(last_run'),
   last_run_metrics |-> last_run_metrics']

\* C30: last_run and last_run_metrics change only in the step that ends a run
\* successfully, which sets them to that run and its metrics; a step that
\* ends a run without success (no item collected, or an exception) leaves
\* both as they were.  So get_status reports the latest successful run.
C30_LastRunOnlyOnSuccess ==
  [][/\ (last_run' # last_run \/ last_run_metrics' # last_run_metrics) =>
          ~ret.returned /\ ret'.returned /\ ret'.success
     /\ (~ret.returned /\ ret'.returned /\ ret'.success) =>
          /\ last_run' = runs
          /\ last_run_metrics' = ret'.metrics
          /\ get_status_next = [last_run |-> Some(runs),
                                last_run_metrics |-> ret'.metrics]
     /\ (~ret.returned /\ ret'.returned /\ ~ret'.success) =>
          /\ UNCHANGED <<last_run, last_run_metrics>>
          /\ get_status_next = get_status]_vars

\* The first run succeeded; the second ended without success, by collecting
\* nothing or by an exception, and get_status still reports the first.
C30_Witness ==
  /\ runs = 2
  /\ pc = "idle"
  /\ ret.returned /\ ~ret.success
  /\ get_status.last_run = Some(1)
  /\ get_status.last_run_metrics.success = "true"

====
